---- MODULE Spec2Model ----
(***************************************************************************)
(* Verification model of the NSLA v2 neuro-symbolic pipeline                *)
(* (app/iteration_manager.py, app/refinement_runtime.py,                    *)
(* app/pipeline_v2.py).                                                     *)
(*                                                                          *)
(* Three state machines share this module:                                  *)
(*   SpecIter   - NSLAPipelineV2.run_iterative with IterationManager.run    *)
(*   SpecRefine - RefinementRuntime.run                                     *)
(*   SpecOnce   - NSLAPipelineV2.run_once                                   *)
(* The LLM, the DSL parser and the Z3 solver are external: their outcomes   *)
(* are drawn nondeterministically from small sets.                          *)
(***************************************************************************)
EXTENDS Integers, Sequences, FiniteSets, TLC

VARIABLES
    \* ---- run_iterative / IterationManager.run -------------------------
    it_pc,            \* position inside run_iterative
    it_question,      \* the question handed to run_iterative
    max_iters,        \* NSLAIterativeConfig.max_iters
    stop_on_status,   \* NSLAIterativeConfig.stop_on_status (as a set)
    v1_solver_ready,  \* context["v1_solver_ready"]
    feedback_v1,      \* context["feedback_v1"]
    answer_v1,        \* context["answer_v1"]
    history,          \* List[IterationState]
    best_state,       \* index (1-based) of the returned best state, 0 = none
    refine_calls,     \* number of RefinementRuntime.run invocations
    v1_error,         \* exception of the v1 solver build, "none" if it built
    unparsable_at     \* iteration whose refined program failed to build, -1 = none

VARIABLES
    \* ---- RefinementRuntime.run ---------------------------------------
    rr_pc,               \* "loop" inside the while, "done" after return
    rr_missing_links,    \* current_feedback.missing_links
    rr_previous_answer,  \* previous_answer argument
    rr_history_summary,  \* history_summary argument
    attempts,            \* local variable attempts
    retry_hint,          \* local variable retry_hint
    last_result,         \* local variable last_result, NoResult = None
    llm_calls,           \* log of the call_refinement_llm invocations
    rr_result            \* the value returned by run, NoResult before

itVars == <<it_pc, it_question, max_iters, stop_on_status, v1_solver_ready,
            feedback_v1, answer_v1, history, best_state, refine_calls,
            v1_error, unparsable_at>>

rrVars == <<rr_pc, rr_missing_links, rr_previous_answer, rr_history_summary,
            attempts, retry_hint, last_result, llm_calls, rr_result>>

VARIABLES
    \* ---- NSLAPipelineV2.run_once ---------------------------------------
    ro_pc,               \* position inside run_once
    ro_question,         \* question argument
    ro_reference_answer, \* reference_answer argument
    judge_runtime,       \* TRUE when the pipeline was built with a judge
    ro_context,          \* context of _prepare_phase2_context, <<>> before
    llm_output_v2,       \* output of refinement_runtime.run, <<>> before
    ro_result,           \* the Phase2RunResult returned, <<>> before
    ro_error             \* exception leaving run_once, "none" if none

roVars == <<ro_pc, ro_question, ro_reference_answer, judge_runtime,
            ro_context, llm_output_v2, ro_result, ro_error>>

VARIABLES
    \* ---- CanonicalizerRuntime ----------------------------------------
    cn_pc,            \* "ready" between run calls, "calling" inside one
    cn_enable_cache,  \* self.enable_cache
    cn_cache_ttl,     \* self.cache_ttl, <<>> is None
    cn_cache,         \* self._cache: key -> <<>> or <<(timestamp, value)>>
    cn_now,           \* time.time()
    cn_question,      \* normalized question of the run call in progress
    cn_log            \* the run calls made so far, with their outcome

cnVars == <<cn_pc, cn_enable_cache, cn_cache_ttl, cn_cache, cn_now,
            cn_question, cn_log>>

VARIABLES
    \* ---- LLMClient._call_llm_with_retry ------------------------------
    lr_pc,           \* "loop", "returned" or "raised"
    lr_max_retries,  \* self.max_retries
    lr_backend,      \* self.backend
    lr_attempt,      \* loop variable attempt
    lr_outcomes,     \* what each attempt made so far came to
    lr_sleeps,       \* the time.sleep calls made so far
    lr_status,       \* self._llm_status[operation_name], <<>> if unset
    lr_result        \* "response", "LLMCallError", "None"; "pending" before

lrVars == <<lr_pc, lr_max_retries, lr_backend, lr_attempt, lr_outcomes,
            lr_sleeps, lr_status, lr_result>>

VARIABLES
    \* ---- LLMClient._llm_status across run_once requests --------------
    ls_pc,          \* position inside run_once: "start", "prepared", "refined"
    _llm_status,    \* LLMClient._llm_status of the shared client
    ls_llm_status,  \* local variable llm_status of run_once
    ls_recorded,    \* statuses recorded while serving the request in progress
    ls_responses,   \* llm_status of the result of each request served
    ls_served       \* statuses recorded while serving each request served

lsVars == <<ls_pc, _llm_status, ls_llm_status, ls_recorded, ls_responses,
            ls_served>>

VARIABLES
    \* ---- NSLAPipelineV2._evaluate_with_fact_synthesis ----------------
    sy_pc,          \* "loop" inside the while, "done" or "raised" after it
    sy_predicates,  \* program.predicates: the declared predicate names
    sy_axioms,      \* predicates whose fact formula is in program.axioms
    sy_attempts,    \* local variable attempts
    sy_log,         \* the solver evaluations made so far
    sy_feedback     \* the LogicFeedback returned, <<>> before

syVars == <<sy_pc, sy_predicates, sy_axioms, sy_attempts, sy_log, sy_feedback>>

VARIABLES
    \* ---- normalization of a logic program by the orchestrator --------
    nm_pc,            \* "raw", "extracted", "normalized" or "checked"
    nm_kind,          \* "v1" (structured extractor) or "refined" program
    nm_input,         \* the program as the LLM returned it
    nm_program,       \* the LogicProgram being normalized (mutated in place)
    nm_previous,      \* nm_program before the last normalization
    nm_passes,        \* sanitize + hydrate + canonical-rule passes applied
    nm_guardrail,     \* issue codes of run_guardrail, <<>> before it ran
    nm_fallback_used  \* TRUE when run_once took the guardrail failure branch

nmVars == <<nm_pc, nm_kind, nm_input, nm_program, nm_previous, nm_passes,
            nm_guardrail, nm_fallback_used>>

VARIABLES
    \* ---- run_guardrail over the predicate declarations of a program ---
    gd_pc,          \* "start" before run_guardrail, "done" after it
    gd_predicates,  \* logic_program.predicates: name -> [arity, sorts]
    gd_canonical,   \* canonical_predicates handed to the strict parser
    gd_issues       \* codes of GuardrailResult.issues

gdVars == <<gd_pc, gd_predicates, gd_canonical, gd_issues>>

VARIABLES
    \* ---- logic_feedback.build_logic_feedback -------------------------
    fb_pc,          \* "start" before build_logic_feedback, "done" after it
    fb_solver,      \* what the solver answers: check, assertions, entailed
    fb_program,     \* logic_program: rules and query
    fb_feedback     \* the LogicFeedback returned, <<>> before the call

fbVars == <<fb_pc, fb_solver, fb_program, fb_feedback>>

VARIABLES
    \* ---- one LLMClient shared by concurrent requests -----------------
    sh_pc,          \* per request thread: "working", "copied", "done"
    sh_llm_status,  \* LLMClient._llm_status: operation -> <<status, writer>>
    sh_statuses,    \* per thread: local variable statuses of pop_llm_statuses
    sh_recorded,    \* <<thread, operation>> pairs recorded so far
    sh_returned     \* how many pops returned each recorded pair

shVars == <<sh_pc, sh_llm_status, sh_statuses, sh_recorded, sh_returned>>

VARIABLES
    \* ---- one CanonicalizerRuntime shared by concurrent run calls -----
    ev_pc,      \* per call: "get", "delete", "backend", "store", "done", "failed"
    ev_cache,   \* self._cache[key]: <<>> or <<timestamp, value>>
    ev_cached,  \* per call: local variable cached of _get_from_cache
    ev_output,  \* per call: what run returns, <<>> before
    ev_now      \* time.time()

evVars == <<ev_pc, ev_cache, ev_cached, ev_output, ev_now>>

VARIABLES
    \* ---- _synthesize_missing_facts on a concrete program -------------
    fs_pc,       \* "start" before the first round, "done" after a round
    fs_program,  \* the LogicProgram the rounds work on
    fs_before,   \* the program as it was before the latest round
    fs_missing,  \* missing_links given to the latest round
    fs_added,    \* what the latest round returned
    fs_rounds    \* rounds run so far

fsVars == <<fs_pc, fs_program, fs_before, fs_missing, fs_added, fs_rounds>>

vars == <<itVars, rrVars, roVars, cnVars, lrVars, lsVars, syVars, nmVars, gdVars, fbVars, shVars, evVars, fsVars>>

\* Each state machine of the module leaves the variables of the others alone
IterOnly   == UNCHANGED <<rrVars, roVars, cnVars, lrVars, lsVars, syVars, nmVars, gdVars, fbVars, shVars, evVars, fsVars>>
RefineOnly == UNCHANGED <<itVars, roVars, cnVars, lrVars, lsVars, syVars, nmVars, gdVars, fbVars, shVars, evVars, fsVars>>
OnceOnly   == UNCHANGED <<itVars, rrVars, cnVars, lrVars, lsVars, syVars, nmVars, gdVars, fbVars, shVars, evVars, fsVars>>
CanonOnly  == UNCHANGED <<itVars, rrVars, roVars, lrVars, lsVars, syVars, nmVars, gdVars, fbVars, shVars, evVars, fsVars>>
RetryOnly  == UNCHANGED <<itVars, rrVars, roVars, cnVars, lsVars, syVars, nmVars, gdVars, fbVars, shVars, evVars, fsVars>>
StatusOnly == UNCHANGED <<itVars, rrVars, roVars, cnVars, lrVars, syVars, nmVars, gdVars, fbVars, shVars, evVars, fsVars>>
SynthOnly == UNCHANGED <<itVars, rrVars, roVars, cnVars, lrVars, lsVars, nmVars, gdVars, fbVars, shVars, evVars, fsVars>>
NormalizeOnly == UNCHANGED <<itVars, rrVars, roVars, cnVars, lrVars, lsVars, syVars, gdVars, fbVars, shVars, evVars, fsVars>>
DeclareOnly == UNCHANGED <<itVars, rrVars, roVars, cnVars, lrVars, lsVars, syVars, nmVars, fbVars, shVars, evVars, fsVars>>
FeedbackOnly == UNCHANGED <<itVars, rrVars, roVars, cnVars, lrVars, lsVars, syVars, nmVars, gdVars, shVars, evVars, fsVars>>
SharedOnly == UNCHANGED <<itVars, rrVars, roVars, cnVars, lrVars, lsVars, syVars, nmVars, gdVars, fbVars, evVars, fsVars>>
EvictOnly == UNCHANGED <<itVars, rrVars, roVars, cnVars, lrVars, lsVars, syVars, nmVars, gdVars, fbVars, shVars, fsVars>>
FactsOnly == UNCHANGED <<itVars, rrVars, roVars, cnVars, lrVars, lsVars, syVars, nmVars, gdVars, fbVars, shVars, evVars>>

-----------------------------------------------------------------------------
(* Bounds of the model *)

MaxItersBound == 3      \* largest configured max_iters explored
MaxCanonCalls == 3      \* CanonicalizerRuntime.run calls explored
MaxRetriesBound == 3    \* largest max_retries explored
MaxTime       == 3      \* largest clock value explored
MaxRequests   == 2      \* run_once requests served by one client
MaxPasses     == 2      \* normalizations applied to one program

-----------------------------------------------------------------------------
(* Shared vocabulary *)

CE  == "consistent_entails"
CNE == "consistent_no_entailment"
INC == "inconsistent"
ILP == "invalid_logic_program"

\* Optional[str] values that Python treats as falsy (None or "")
NoText == ""

GENERIC_FALLBACK_ANSWER ==
    "Risposta generica (fallback) in attesa di un refinement valido."

LogicFeedback(st, ml, ca) ==
    [status |-> st, missing_links |-> ml, conflicting_axioms |-> ca]

\* Feedbacks the solver/feedback builder may hand to the iteration manager
SolverFeedbacks ==
    { LogicFeedback(CE,  <<>>, <<>>),
      LogicFeedback(INC, <<>>, <<"r1", "r2">>),
      LogicFeedback(INC, <<>>, <<"r2", "r1">>),
      LogicFeedback(CNE, <<>>, <<>>),
      LogicFeedback(CNE, <<"A">>, <<>>),
      LogicFeedback(CNE, <<"A", "B">>, <<>>),
      LogicFeedback(CNE, <<"B", "A">>, <<>>) }

\* Feedbacks of the v1 program explored by the model
V1Feedbacks ==
    { LogicFeedback(CE,  <<>>, <<>>),
      LogicFeedback(CNE, <<"A">>, <<>>) }

\* Baseline answers of ask_llm_structured (any str, the empty one included)
BaselineAnswers == { "v1 answer", NoText }

\* Questions: a proper one and one that is blank after strip()
Questions == { "Domanda", " " }

\* Configured max_iters: Field(default=3) without constraint, so a negative
\* value and zero are explored beside 1..MaxItersBound
MaxItersValues == {-1} \cup (0..MaxItersBound)

IsBlank(question) == question = " "

\* Exceptions raised by translator.build_solver
ParserErrors == { "UnknownPredicateError", "DSLParseError",
                  "InvalidArityError", "TypeMismatchError", "ValueError" }

\* Python's ordering of the names used in missing_links / conflicting_axioms
Rank(x) == CASE x = "A"  -> 1
             [] x = "B"  -> 2
             [] x = "r1" -> 3
             [] x = "r2" -> 4

RemoveAt(s, i) == SubSeq(s, 1, i - 1) \o SubSeq(s, i + 1, Len(s))

RECURSIVE sorted(_)
sorted(s) ==
    IF s = <<>> THEN <<>>
    ELSE LET m == CHOOSE i \in 1..Len(s) :
                     \A j \in 1..Len(s) : Rank(s[i]) <= Rank(s[j])
         IN  <<s[m]>> \o sorted(RemoveAt(s, m))

-----------------------------------------------------------------------------
(* RefinementRuntime, as seen by its callers *)

\* a fallback that forgets the previous answer
fallback_output_generic(previous_answer, current_program) ==
    [ final_answer  |-> GENERIC_FALLBACK_ANSWER,
      logic_program |-> current_program ]

\* RefinementRuntime._fallback_output with current_program given
fallback_output(previous_answer, current_program) ==
    [ final_answer  |-> IF previous_answer = NoText
                        THEN GENERIC_FALLBACK_ANSWER ELSE previous_answer,
      logic_program |-> current_program ]

\* What one RefinementRuntime.run call may return: a program written by the
\* LLM with its answer, or the deterministic fallback
RefinementOutputs(previous_answer, current_program) ==
    { [final_answer |-> "llm answer", logic_program |-> "refined"],
      fallback_output(previous_answer, current_program) }

-----------------------------------------------------------------------------
(* Text, as sequences of one-character strings *)

Lower(c) == CASE c = "A" -> "a"
              [] c = "B" -> "b"
              [] OTHER   -> c

\* str.lower()
lower(text) == [i \in 1..Len(text) |-> Lower(text[i])]

\* str.strip()
RECURSIVE strip(_)
strip(text) ==
    IF text = <<>> THEN text
    ELSE IF Head(text) = " " THEN strip(Tail(text))
    ELSE IF text[Len(text)] = " " THEN strip(SubSeq(text, 1, Len(text) - 1))
    ELSE text

\* "\n".join(corpus)
RECURSIVE join_lines(_)
join_lines(corpus) ==
    IF corpus = <<>> THEN <<>>
    ELSE IF Len(corpus) = 1 THEN corpus[1]
    ELSE corpus[1] \o <<"\n">> \o join_lines(Tail(corpus))

\* needle in haystack
Contains(haystack, needle) ==
    \E i \in 0..(Len(haystack) - Len(needle)) :
        SubSeq(haystack, i + 1, i + Len(needle)) = needle

-----------------------------------------------------------------------------
(* RefinementRuntime.run *)

MAX_REFINEMENT_ATTEMPTS == 2

\* Optional[LLMOutputV2]: <<>> is None, <<r>> is the object r
NoResult == <<>>
NoHint   == [text |-> NoText, links |-> {}]

DEFAULT_HISTORY == "Nessuna iterazione precedente: primo refinement."

LLMProgram(ax, ru, hasq, q) ==
    [axioms |-> ax, rules |-> ru, has_query |-> hasq, query |-> q]

\* programs the refinement LLM may return
ProgEmpty     == LLMProgram(<<>>, <<>>, FALSE, <<>>)
ProgAxiomA    == LLMProgram(<< <<"a", "(", "x", ")">> >>, <<>>, FALSE, <<>>)
ProgRuleUpper == LLMProgram(<< <<>> >>,
                            << [condition  |-> <<"b", "(", "x", ")">>,
                                conclusion |-> <<"A", "(", "x", ")">>] >>,
                            FALSE, <<>>)
ProgQueryBare == LLMProgram(<<>>, <<>>, TRUE, <<"a">>)
ProgSplit     == LLMProgram(<< <<"a">>, <<"(", "x", ")">> >>, <<>>, FALSE, <<>>)
ProgSuffix    == LLMProgram(<<>>, <<>>, TRUE, <<"b", "a", "(", "x", ")">>)

LLMPrograms == { ProgEmpty, ProgAxiomA, ProgRuleUpper, ProgQueryBare,
                 ProgSplit, ProgSuffix }

\* the program handed to run as current_program
CurrentProgram == LLMProgram(<< <<"b", "(", "x", ")">> >>, <<>>, TRUE, <<"c">>)

\* missing_links lists explored
MissingLinkLists ==
    { <<>>,
      << <<"a">> >>,
      << <<"A">> >>,
      << <<" ">> >>,
      << <<"b">>, <<" ", "a">> >> }

PreviousAnswers  == { "previous answer", NoText }
HistorySummaries == { "Iter 0: mancava a", NoText }

\* corpus of _covers_missing_links, lines 141-157
RECURSIVE axiom_corpus(_)
axiom_corpus(axioms) ==
    IF axioms = <<>> THEN <<>>
    ELSE (IF Head(axioms) # <<>> THEN <<Head(axioms)>> ELSE <<>>)
         \o axiom_corpus(Tail(axioms))

RECURSIVE rule_corpus(_)
rule_corpus(rules) ==
    IF rules = <<>> THEN <<>>
    ELSE <<Head(rules).condition, Head(rules).conclusion>>
         \o rule_corpus(Tail(rules))

corpus_of(logic_program) ==
    axiom_corpus(logic_program.axioms)
    \o rule_corpus(logic_program.rules)
    \o (IF logic_program.has_query THEN <<logic_program.query>> ELSE <<>>)

\* covers_from with a blank token counted as a missing predicate
RECURSIVE covers_from_blank_fails(_, _, _)
covers_from_blank_fails(haystack, missing_links, i) ==
    IF i > Len(missing_links) THEN TRUE
    ELSE LET token == lower(strip(missing_links[i])) IN
         IF ~Contains(haystack, token \o <<"(">>) THEN FALSE
         ELSE covers_from_blank_fails(haystack, missing_links, i + 1)

\* the for loop of _covers_missing_links, lines 160-166
RECURSIVE covers_from(_, _, _)
covers_from(haystack, missing_links, i) ==
    IF i > Len(missing_links) THEN TRUE
    ELSE LET token == lower(strip(missing_links[i])) IN
         IF token = <<>> THEN covers_from(haystack, missing_links, i + 1)
         ELSE IF ~Contains(haystack, token \o <<"(">>) THEN FALSE
         ELSE covers_from(haystack, missing_links, i + 1)

\* RefinementRuntime._covers_missing_links
_covers_missing_links(logic_program, missing_links) ==
    IF missing_links = <<>> THEN TRUE
    ELSE covers_from(lower(join_lines(corpus_of(logic_program))),
                     missing_links, 1)

\* RefinementRuntime._build_retry_hint
_build_retry_hint(missing_links) ==
    IF missing_links = <<>> THEN NoHint
    ELSE [ text  |-> "ATTENZIONE",
           links |-> { missing_links[i] : i \in 1..Len(missing_links) }
                        \ { <<>> } ]

\* runtime_history of run, lines 54-57
runtime_history(history_summary, hint) ==
    IF hint = NoHint THEN <<history_summary>>
    ELSE << (IF history_summary = NoText THEN DEFAULT_HISTORY
             ELSE history_summary), "\n\n", hint >>

\* the return after the loop always taking the fallback
exhausted_return_fallback(last, previous_answer, current_program) ==
    <<fallback_output(previous_answer, current_program)>>

\* the return after the while loop of run, lines 96-100
exhausted_return(last, previous_answer, current_program) ==
    IF Len(last) # 0 THEN last
    ELSE <<fallback_output(previous_answer, current_program)>>

\* the other state machines of the module do not move

IdleRefine ==
    /\ rr_pc = "idle"
    /\ rr_missing_links = <<>>
    /\ rr_previous_answer = NoText
    /\ rr_history_summary = NoText
    /\ attempts = 0
    /\ retry_hint = NoHint
    /\ last_result = NoResult
    /\ llm_calls = <<>>
    /\ rr_result = NoResult

InitRefine ==
    /\ rr_pc = "loop"
    /\ rr_missing_links \in MissingLinkLists
    /\ rr_previous_answer \in PreviousAnswers
    /\ rr_history_summary \in HistorySummaries
    /\ attempts = 0
    /\ retry_hint = NoHint
    /\ last_result = NoResult
    /\ llm_calls = <<>>
    /\ rr_result = NoResult

LLMCall(outcome, program) ==
    [ history_summary |-> runtime_history(rr_history_summary, retry_hint),
      answer_v1       |-> rr_previous_answer,
      outcome         |-> outcome,
      logic_program   |-> program ]

\* loop body, lines 53-75: the LLM output covers missing_links
RR_AttemptCovers ==
    /\ rr_pc = "loop"
    /\ attempts < MAX_REFINEMENT_ATTEMPTS
    /\ \E program \in LLMPrograms :
          /\ _covers_missing_links(program, rr_missing_links)
          /\ llm_calls' = Append(llm_calls, LLMCall("returned", program))
          /\ last_result' = << [final_answer  |-> "llm answer",
                                logic_program |-> program] >>
    /\ rr_result' = last_result'
    /\ rr_pc' = "done"
    /\ UNCHANGED <<rr_missing_links, rr_previous_answer, rr_history_summary,
                   attempts, retry_hint>>
    /\ RefineOnly

\* loop body, lines 53-69 and 76-83: the LLM output omits a missing link
RR_AttemptMisses ==
    /\ rr_pc = "loop"
    /\ attempts < MAX_REFINEMENT_ATTEMPTS
    /\ \E program \in LLMPrograms :
          /\ ~_covers_missing_links(program, rr_missing_links)
          /\ llm_calls' = Append(llm_calls, LLMCall("returned", program))
          /\ last_result' = << [final_answer  |-> "llm answer",
                                logic_program |-> program] >>
    /\ retry_hint' = _build_retry_hint(rr_missing_links)
    /\ attempts' = attempts + 1
    /\ UNCHANGED <<rr_pc, rr_missing_links, rr_previous_answer,
                   rr_history_summary, rr_result>>
    /\ RefineOnly

\* loop body, lines 84-94: call_refinement_llm or LLMOutputV2(**raw_dict)
\* raises
RR_AttemptRaises ==
    /\ rr_pc = "loop"
    /\ attempts < MAX_REFINEMENT_ATTEMPTS
    /\ \E outcome \in {"llm_raised", "validation_raised"} :
          llm_calls' = Append(llm_calls, LLMCall(outcome, ProgEmpty))
    /\ rr_result' = <<fallback_output(rr_previous_answer, CurrentProgram)>>
    /\ rr_pc' = "done"
    /\ UNCHANGED <<rr_missing_links, rr_previous_answer, rr_history_summary,
                   attempts, retry_hint, last_result>>
    /\ RefineOnly

\* lines 96-100: the attempts are used up
RR_Exhausted ==
    /\ rr_pc = "loop"
    /\ ~(attempts < MAX_REFINEMENT_ATTEMPTS)
    /\ rr_result' = exhausted_return(last_result, rr_previous_answer,
                                     CurrentProgram)
    /\ rr_pc' = "done"
    /\ UNCHANGED <<rr_missing_links, rr_previous_answer, rr_history_summary,
                   attempts, retry_hint, last_result, llm_calls>>
    /\ RefineOnly

NextRefine ==
    \/ RR_AttemptCovers
    \/ RR_AttemptMisses
    \/ RR_AttemptRaises
    \/ RR_Exhausted

-----------------------------------------------------------------------------
(* IterationManager *)

\* an except clause that leaves ValueError out
CaughtByPrepare_no_ValueError(err) == err \in ParserErrors \ {"ValueError"}

\* the except clause of _prepare_phase2_context, lines 276-282
CaughtByPrepare(err) == err \in ParserErrors

IterationState(idx, out, fb) ==
    [ iteration          |-> idx,
      final_answer       |-> out.final_answer,
      logic_program      |-> out.logic_program,
      status             |-> fb.status,
      missing_links      |-> fb.missing_links,
      conflicting_axioms |-> fb.conflicting_axioms,
      is_best            |-> (fb.status = CE) ]

\* _should_stop without the max_iters test
_should_stop_no_max(h) ==
    IF h = <<>> THEN FALSE
    ELSE LET last_state == h[Len(h)] IN
         IF last_state.status \in stop_on_status THEN TRUE
         ELSE IF Len(h) >= 2
              THEN LET prev_state == h[Len(h) - 1] IN
                   /\ prev_state.status = last_state.status
                   /\ sorted(prev_state.missing_links)
                        = sorted(last_state.missing_links)
                   /\ sorted(prev_state.conflicting_axioms)
                        = sorted(last_state.conflicting_axioms)
              ELSE FALSE

\* _should_stop without the stop_on_status test
_should_stop_no_status(h) ==
    IF h = <<>> THEN FALSE
    ELSE LET last_state == h[Len(h)] IN
         IF Len(h) >= max_iters THEN TRUE
         ELSE IF Len(h) >= 2
              THEN LET prev_state == h[Len(h) - 1] IN
                   /\ prev_state.status = last_state.status
                   /\ sorted(prev_state.missing_links)
                        = sorted(last_state.missing_links)
                   /\ sorted(prev_state.conflicting_axioms)
                        = sorted(last_state.conflicting_axioms)
              ELSE FALSE

\* _should_stop comparing the lists without sorting them
_should_stop_unsorted(h) ==
    IF h = <<>> THEN FALSE
    ELSE LET last_state == h[Len(h)] IN
         IF last_state.status \in stop_on_status THEN TRUE
         ELSE IF Len(h) >= max_iters THEN TRUE
         ELSE IF Len(h) >= 2
              THEN LET prev_state == h[Len(h) - 1] IN
                   /\ prev_state.status = last_state.status
                   /\ prev_state.missing_links = last_state.missing_links
                   /\ prev_state.conflicting_axioms
                        = last_state.conflicting_axioms
              ELSE FALSE

\* _should_stop letting one state more than max_iters through
_should_stop_past_max(h) ==
    IF h = <<>> THEN FALSE
    ELSE LET last_state == h[Len(h)] IN
         IF last_state.status \in stop_on_status THEN TRUE
         ELSE IF Len(h) > max_iters THEN TRUE
         ELSE IF Len(h) >= 2
              THEN LET prev_state == h[Len(h) - 1] IN
                   /\ prev_state.status = last_state.status
                   /\ sorted(prev_state.missing_links)
                        = sorted(last_state.missing_links)
                   /\ sorted(prev_state.conflicting_axioms)
                        = sorted(last_state.conflicting_axioms)
              ELSE FALSE

\* IterationManager._should_stop
_should_stop(h) ==
    IF h = <<>> THEN FALSE
    ELSE LET last_state == h[Len(h)] IN
         IF last_state.status \in stop_on_status THEN TRUE
         ELSE IF Len(h) >= max_iters THEN TRUE
         ELSE IF Len(h) >= 2
              THEN LET prev_state == h[Len(h) - 1] IN
                   /\ prev_state.status = last_state.status
                   /\ sorted(prev_state.missing_links)
                        = sorted(last_state.missing_links)
                   /\ sorted(prev_state.conflicting_axioms)
                        = sorted(last_state.conflicting_axioms)
              ELSE FALSE

\* first loop of _select_best_state: first state from i on with is_best
RECURSIVE first_is_best(_, _)
first_is_best(h, i) ==
    IF i > Len(h) THEN 0
    ELSE IF h[i].is_best THEN i
    ELSE first_is_best(h, i + 1)

\* second loop of _select_best_state: first consistent_entails from i on
RECURSIVE first_consistent_entails(_, _)
first_consistent_entails(h, i) ==
    IF i > Len(h) THEN 0
    ELSE IF h[i].status = CE THEN i
    ELSE first_consistent_entails(h, i + 1)

\* _select_best_state always answering the first iteration
_select_best_state_first(h) == 1

\* _select_best_state always answering the last iteration
_select_best_state_last(h) == Len(h)

\* IterationManager._select_best_state (returns the position in history)
_select_best_state(h) ==
    IF first_is_best(h, 1) # 0 THEN first_is_best(h, 1)
    ELSE IF first_consistent_entails(h, 1) # 0
         THEN first_consistent_entails(h, 1)
         ELSE Len(h)

\* an append that numbers the states from one
_append_iteration_from_one(h, idx, out, fb) ==
    Append(h, IterationState(idx + 1, out, fb))

\* IterationManager._append_iteration once the refinement output `out` and
\* the solver feedback `fb` are known
_append_iteration(h, idx, out, fb) == Append(h, IterationState(idx, out, fb))

-----------------------------------------------------------------------------
(* NSLAPipelineV2.run_iterative *)


IdleIter ==
    /\ it_pc = "idle"
    /\ it_question = "Domanda"
    /\ max_iters = 3
    /\ stop_on_status = {CE, INC}
    /\ v1_solver_ready = TRUE
    /\ feedback_v1 = LogicFeedback(CNE, <<>>, <<>>)
    /\ answer_v1 = NoText
    /\ history = <<>>
    /\ best_state = 0
    /\ refine_calls = 0
    /\ v1_error = "none"
    /\ unparsable_at = -1

InitIter ==
    /\ it_pc = "start"
    /\ it_question \in Questions
    /\ max_iters \in MaxItersValues
    /\ stop_on_status \in SUBSET {CE, INC}
    /\ v1_solver_ready = TRUE
    /\ feedback_v1 = LogicFeedback(CNE, <<>>, <<>>)
    /\ answer_v1 = NoText
    /\ history = <<>>
    /\ best_state = 0
    /\ refine_calls = 0
    /\ v1_error = "none"
    /\ unparsable_at = -1

\* _prepare_phase2_context: CanonicalizerRuntime.run rejects a blank question
RI_PrepareRejectsQuestion ==
    /\ it_pc = "start"
    /\ IsBlank(it_question)
    /\ it_pc' = "raised"
    /\ UNCHANGED <<it_question, max_iters, stop_on_status, v1_solver_ready,
                   feedback_v1, answer_v1, history, best_state, refine_calls,
                   v1_error, unparsable_at>>
    /\ IterOnly

\* _prepare_phase2_context: the v1 program builds and is evaluated
RI_PrepareSolverReady ==
    /\ it_pc = "start"
    /\ ~IsBlank(it_question)
    /\ \E ans \in BaselineAnswers, fb \in V1Feedbacks :
          /\ answer_v1' = ans
          /\ feedback_v1' = fb
    /\ v1_solver_ready' = TRUE
    /\ it_pc' = "manager"
    /\ UNCHANGED <<it_question, max_iters, stop_on_status, history, best_state,
                   refine_calls, v1_error, unparsable_at>>
    /\ IterOnly

\* _prepare_phase2_context: building the v1 solver raises
RI_PrepareSolverFails ==
    /\ it_pc = "start"
    /\ ~IsBlank(it_question)
    /\ \E ans \in BaselineAnswers, err \in ParserErrors :
          /\ answer_v1' = ans
          /\ v1_error' = err
          /\ IF CaughtByPrepare(err)
             THEN /\ v1_solver_ready' = FALSE
                  /\ feedback_v1' = LogicFeedback(ILP, <<>>, <<>>)
                  /\ it_pc' = "short_circuit"
             ELSE /\ it_pc' = "raised"
                  /\ UNCHANGED <<v1_solver_ready, feedback_v1>>
    /\ UNCHANGED <<it_question, max_iters, stop_on_status, history, best_state,
                   refine_calls, unparsable_at>>
    /\ IterOnly

\* run_iterative, branch "not v1_solver_ready": one iteration-0 state built
\* from the context, no refinement
RI_ShortCircuit ==
    /\ it_pc = "short_circuit"
    /\ ~v1_solver_ready
    /\ history' = << [ iteration          |-> 0,
                       final_answer       |-> answer_v1,
                       logic_program      |-> "v1",
                       status             |-> feedback_v1.status,
                       missing_links      |-> feedback_v1.missing_links,
                       conflicting_axioms |-> feedback_v1.conflicting_axioms,
                       is_best            |-> TRUE ] >>
    /\ best_state' = 1
    /\ it_pc' = "done"
    /\ UNCHANGED <<it_question, max_iters, stop_on_status, v1_solver_ready,
                   feedback_v1, answer_v1, refine_calls, v1_error,
                   unparsable_at>>
    /\ IterOnly

\* IterationManager.run, lines 64-74: iteration 0
IM_Iteration0 ==
    /\ it_pc = "manager"
    /\ \E out \in RefinementOutputs(answer_v1, "v1"), fb \in SolverFeedbacks :
          history' = _append_iteration(history, 0, out, fb)
    /\ refine_calls' = refine_calls + 1
    /\ it_pc' = "while"
    /\ UNCHANGED <<it_question, max_iters, stop_on_status, v1_solver_ready,
                   feedback_v1, answer_v1, best_state, v1_error,
                   unparsable_at>>
    /\ IterOnly

\* IterationManager.run, lines 76-96: one pass of the while loop
IM_LoopBody ==
    /\ it_pc = "while"
    /\ ~_should_stop(history)
    /\ LET prev_state == history[Len(history)] IN
       \E out \in RefinementOutputs(prev_state.final_answer,
                                    prev_state.logic_program),
          fb \in SolverFeedbacks :
          history' = _append_iteration(history, Len(history), out, fb)
    /\ refine_calls' = refine_calls + 1
    /\ it_pc' = IF Len(history') >= max_iters THEN "select" ELSE "while"
    /\ UNCHANGED <<it_question, max_iters, stop_on_status, v1_solver_ready,
                   feedback_v1, answer_v1, best_state, v1_error,
                   unparsable_at>>
    /\ IterOnly

\* _append_iteration, lines 122-127: the refined program is rejected by
\* LogicProgram(**logic_dict) or by solver_builder; nothing catches it
IM_AppendRaises ==
    /\ \/ it_pc = "manager"
       \/ it_pc = "while" /\ ~_should_stop(history)
    /\ refine_calls' = refine_calls + 1
    /\ unparsable_at' = Len(history)
    /\ it_pc' = "raised"
    /\ UNCHANGED <<it_question, max_iters, stop_on_status, v1_solver_ready,
                   feedback_v1, answer_v1, history, best_state, v1_error>>
    /\ IterOnly

\* IterationManager.run, lines 98-99, and the return of run_iterative
IM_Return ==
    /\ \/ it_pc = "select"
       \/ it_pc = "while" /\ _should_stop(history)
    /\ best_state' = _select_best_state(history)
    /\ it_pc' = "done"
    /\ UNCHANGED <<it_question, max_iters, stop_on_status, v1_solver_ready,
                   feedback_v1, answer_v1, history, refine_calls, v1_error,
                   unparsable_at>>
    /\ IterOnly

NextIter ==
    \/ RI_PrepareRejectsQuestion
    \/ RI_PrepareSolverReady
    \/ RI_PrepareSolverFails
    \/ RI_ShortCircuit
    \/ IM_Iteration0
    \/ IM_LoopBody
    \/ IM_AppendRaises
    \/ IM_Return

-----------------------------------------------------------------------------
(* NSLAPipelineV2.run_once *)

FACT_SYNTHESIS_MAX_ROUNDS == 3

\* Logic programs explored by the model, named after what the parser, the
\* guardrail and the solver make of them
ProgramNames == { "entails", "missing", "synthesized", "undeclared",
                  "inconsistent", "off_ontology", "bad_rule", "bad_axiom" }

\* A logic_program dict that LogicProgram(**dict) rejects
Malformed == "malformed"

\* translator.build_solver: "ok", or the exception it raises
build_solver(program) ==
    CASE program = "bad_rule"  -> "UnknownPredicateError"
      [] program = "bad_axiom" -> "ValueError"
      [] OTHER                 -> "ok"

\* guardrail_checker.run_guardrail: the ok flag. Rules and query are parsed
\* strictly, declarations are checked against the ontology, axioms are not
\* looked at
run_guardrail(program) == program \notin { "bad_rule", "off_ontology" }

\* logic_feedback.build_logic_feedback on a program that built
build_logic_feedback(program) ==
    CASE program = "entails"      -> LogicFeedback(CE,  <<>>, <<>>)
      [] program = "synthesized"  -> LogicFeedback(CE,  <<>>, <<>>)
      [] program = "missing"      -> LogicFeedback(CNE, <<"A">>, <<>>)
      [] program = "undeclared"   -> LogicFeedback(CNE, <<"B", "A">>, <<>>)
      [] program = "inconsistent" -> LogicFeedback(INC, <<>>, <<"r1", "r2">>)
      [] OTHER                    -> LogicFeedback(CNE, <<>>, <<>>)

\* _synthesize_missing_facts: the program after the facts were appended in
\* place; the same program when nothing was added
_synthesize_missing_facts(program) ==
    IF program = "missing" THEN "synthesized" ELSE program

\* _collect_fact_predicates
_collect_fact_predicates(program) ==
    IF program \in {"synthesized", "entails"} THEN <<"A">> ELSE <<>>

\* _augment_final_answer: the answer and the predicates of the appended
\* "Requisiti simbolici soddisfatti" sentence
_augment_final_answer(answer, predicates) ==
    [ text |-> answer, satisfied |-> predicates ]

\* the loop of _evaluate_with_fact_synthesis, entered with `rounds` rounds done
RECURSIVE evaluate_from(_, _)
evaluate_from(program, rounds) ==
    IF build_solver(program) # "ok"
    THEN [ raised |-> build_solver(program), program |-> program,
           feedback |-> <<>> ]
    ELSE LET feedback == build_logic_feedback(program)
             returned == [ raised |-> "none", program |-> program,
                           feedback |-> <<feedback>> ]
         IN  IF \/ feedback.missing_links = <<>>
                \/ feedback.status # CNE
                \/ rounds >= FACT_SYNTHESIS_MAX_ROUNDS
             THEN returned
             ELSE IF _synthesize_missing_facts(program) = program
                  THEN returned
                  ELSE evaluate_from(_synthesize_missing_facts(program),
                                     rounds + 1)

_evaluate_with_fact_synthesis(program) == evaluate_from(program, 0)

\* the dict returned by _prepare_phase2_context, lines 270-308
_prepare_phase2_context(program_v1, answer) ==
    LET evaluation == _evaluate_with_fact_synthesis(program_v1) IN
    IF evaluation.raised = "none"
    THEN [ logic_program_v1 |-> evaluation.program,
           feedback_v1      |-> evaluation.feedback[1],
           answer_v1        |-> answer,
           v1_solver_ready  |-> TRUE ]
    ELSE [ logic_program_v1 |-> evaluation.program,
           feedback_v1      |-> LogicFeedback(ILP, <<>>, <<>>),
           answer_v1        |-> answer,
           v1_solver_ready  |-> FALSE ]

\* an explanation status taken from the feedback whatever the guardrail says
synthesize_explanation_ignores_guardrail(feedback, guardrail_ok) ==
    feedback.status

\* explanation_synthesizer.synthesize_explanation: the status field
synthesize_explanation(feedback, guardrail_ok) ==
    IF ~guardrail_ok THEN "guardrail_failed" ELSE feedback.status

\* _maybe_run_judge
_maybe_run_judge(reference_answer, guardrail_ok) ==
    IF reference_answer = NoText \/ ~judge_runtime \/ ~guardrail_ok
    THEN "None" ELSE "judged"

\* _build_guardrail_failure_result once build_solver(logic_program_v1) returned
_build_guardrail_failure_result(context, llm_output) ==
    LET fallback_feedback == build_logic_feedback(context.logic_program_v1) IN
    [ final_answer       |-> _augment_final_answer(llm_output.final_answer, <<>>),
      logic_program      |-> llm_output.logic_program,
      feedback_v2        |-> fallback_feedback,
      guardrail_ok       |-> FALSE,
      explanation_status |-> synthesize_explanation(fallback_feedback, FALSE),
      fallback_used      |-> TRUE,
      fallback_feedback  |-> <<fallback_feedback>>,
      feedback_v1        |-> context.feedback_v1,
      answer_v1          |-> context.answer_v1,
      judge_result       |-> _maybe_run_judge(ro_reference_answer, FALSE) ]

\* the Phase2RunResult of run_once, lines 146-178
success_result(context, llm_output, program_v2, feedback_v2) ==
    [ final_answer       |-> _augment_final_answer(
                                 llm_output.final_answer,
                                 _collect_fact_predicates(program_v2)),
      logic_program      |-> program_v2,
      feedback_v2        |-> feedback_v2,
      guardrail_ok       |-> TRUE,
      explanation_status |-> synthesize_explanation(feedback_v2, TRUE),
      fallback_used      |-> FALSE,
      fallback_feedback  |-> <<>>,
      feedback_v1        |-> context.feedback_v1,
      answer_v1          |-> context.answer_v1,
      judge_result       |-> _maybe_run_judge(ro_reference_answer, TRUE) ]

\* What refinement_runtime.run may hand to run_once
OnceOutputs(previous_answer, current_program) ==
    { [final_answer |-> "llm answer", logic_program |-> program] :
          program \in ProgramNames \cup {Malformed} }
    \cup { fallback_output(previous_answer, current_program) }

ReferenceAnswers == { NoText, "reference" }


IdleOnce ==
    /\ ro_pc = "idle"
    /\ ro_question = "Domanda"
    /\ ro_reference_answer = NoText
    /\ judge_runtime = FALSE
    /\ ro_context = <<>>
    /\ llm_output_v2 = <<>>
    /\ ro_result = <<>>
    /\ ro_error = "none"

InitOnce ==
    /\ ro_pc = "start"
    /\ ro_question \in Questions
    /\ ro_reference_answer \in ReferenceAnswers
    /\ judge_runtime \in BOOLEAN
    /\ ro_context = <<>>
    /\ llm_output_v2 = <<>>
    /\ ro_result = <<>>
    /\ ro_error = "none"

\* line 80: CanonicalizerRuntime.run raises ValueError on a blank question
RO_PrepareRejectsQuestion ==
    /\ ro_pc = "start"
    /\ IsBlank(ro_question)
    /\ ro_error' = "ValueError"
    /\ ro_pc' = "raised"
    /\ UNCHANGED <<ro_question, ro_reference_answer, judge_runtime,
                   ro_context, llm_output_v2, ro_result>>
    /\ OnceOnly

\* lines 80-88: _prepare_phase2_context returns the context
RO_Prepare ==
    /\ ro_pc = "start"
    /\ ~IsBlank(ro_question)
    /\ \E program_v1 \in ProgramNames, answer \in BaselineAnswers :
          LET raised == _evaluate_with_fact_synthesis(program_v1).raised IN
          IF raised = "none" \/ CaughtByPrepare(raised)
          THEN /\ ro_context' = <<_prepare_phase2_context(program_v1, answer)>>
               /\ ro_pc' = "refine"
               /\ UNCHANGED ro_error
          ELSE /\ ro_error' = raised
               /\ ro_pc' = "raised"
               /\ UNCHANGED ro_context
    /\ UNCHANGED <<ro_question, ro_reference_answer, judge_runtime,
                   llm_output_v2, ro_result>>
    /\ OnceOnly

\* lines 91-99: the refinement runtime returns its output
RO_Refine ==
    /\ ro_pc = "refine"
    /\ \E output \in OnceOutputs(ro_context[1].answer_v1,
                                 ro_context[1].logic_program_v1) :
          llm_output_v2' = <<output>>
    /\ ro_pc' = "guardrail"
    /\ UNCHANGED <<ro_question, ro_reference_answer, judge_runtime,
                   ro_context, ro_result, ro_error>>
    /\ OnceOnly

\* line 102: LogicProgram(**llm_output_v2.logic_program) raises
RO_ValidationRaises ==
    /\ ro_pc = "guardrail"
    /\ llm_output_v2[1].logic_program = Malformed
    /\ ro_error' = "ValidationError"
    /\ ro_pc' = "raised"
    /\ UNCHANGED <<ro_question, ro_reference_answer, judge_runtime,
                   ro_context, llm_output_v2, ro_result>>
    /\ OnceOnly

\* lines 109-125: the guardrail rejects the refined program;
\* _build_guardrail_failure_result builds the v1 solver again, unguarded
RO_GuardrailFails ==
    /\ ro_pc = "guardrail"
    /\ llm_output_v2[1].logic_program # Malformed
    /\ ~run_guardrail(llm_output_v2[1].logic_program)
    /\ IF build_solver(ro_context[1].logic_program_v1) = "ok"
       THEN /\ ro_result' = <<_build_guardrail_failure_result(
                                  ro_context[1], llm_output_v2[1])>>
            /\ ro_pc' = "done"
            /\ UNCHANGED ro_error
       ELSE /\ ro_error' = build_solver(ro_context[1].logic_program_v1)
            /\ ro_pc' = "raised"
            /\ UNCHANGED ro_result
    /\ UNCHANGED <<ro_question, ro_reference_answer, judge_runtime,
                   ro_context, llm_output_v2>>
    /\ OnceOnly

\* lines 127-180: the guardrail accepts the refined program, which is then
\* evaluated, checked by the guardrail again and returned
RO_Evaluate ==
    /\ ro_pc = "guardrail"
    /\ llm_output_v2[1].logic_program # Malformed
    /\ run_guardrail(llm_output_v2[1].logic_program)
    /\ LET evaluation ==
               _evaluate_with_fact_synthesis(llm_output_v2[1].logic_program)
       IN  IF evaluation.raised # "none"
           THEN /\ ro_error' = evaluation.raised
                /\ ro_pc' = "raised"
                /\ UNCHANGED ro_result
           ELSE IF ~run_guardrail(evaluation.program)
           THEN IF build_solver(ro_context[1].logic_program_v1) = "ok"
                THEN /\ ro_result' = <<_build_guardrail_failure_result(
                                ro_context[1],
                                [llm_output_v2[1] EXCEPT
                                    !.logic_program = evaluation.program])>>
                     /\ ro_pc' = "done"
                     /\ UNCHANGED ro_error
                ELSE /\ ro_error' =
                            build_solver(ro_context[1].logic_program_v1)
                     /\ ro_pc' = "raised"
                     /\ UNCHANGED ro_result
           ELSE /\ ro_result' = <<success_result(
                                      ro_context[1], llm_output_v2[1],
                                      evaluation.program,
                                      evaluation.feedback[1])>>
                /\ ro_pc' = "done"
                /\ UNCHANGED ro_error
    /\ UNCHANGED <<ro_question, ro_reference_answer, judge_runtime,
                   ro_context, llm_output_v2>>
    /\ OnceOnly

NextOnce ==
    \/ RO_PrepareRejectsQuestion
    \/ RO_Prepare
    \/ RO_Refine
    \/ RO_ValidationRaises
    \/ RO_GuardrailFails
    \/ RO_Evaluate

-----------------------------------------------------------------------------
(* CanonicalizerRuntime *)

\* Questions handed to run: two that are equal after strip(), a different
\* one and a blank one
CanonQuestions == { <<"q">>, <<" ", "q", " ">>, <<"r">>, <<" ">> }

CacheKeys == { strip(q) : q \in CanonQuestions } \ { <<>> }

\* cache_ttl values: None, 0 seconds, 2 seconds
CacheTtls == { <<>>, <<0>>, <<2>> }

\* What run obtains for a question on a miss: the output of
\* call_canonicalizer, or the deterministic _fallback output when it raises
CanonOutput(key, variant) == [question |-> key, variant |-> variant]

BackendOutcomes == { "llm", "fallback" }

\* an entry that expires as soon as its age reaches the TTL
expired_at_ttl(now, timestamp) ==
    cn_cache_ttl # <<>> /\ (now - timestamp) >= cn_cache_ttl[1]

\* the TTL test of _get_from_cache, line 123
expired(now, timestamp) ==
    cn_cache_ttl # <<>> /\ (now - timestamp) > cn_cache_ttl[1]

\* CanonicalizerRuntime._get_from_cache: the value returned, <<>> for None
_get_from_cache(key) ==
    IF ~cn_enable_cache THEN <<>>
    ELSE IF cn_cache[key] = <<>> THEN <<>>
    ELSE IF expired(cn_now, cn_cache[key][1].timestamp) THEN <<>>
    ELSE <<cn_cache[key][1].value>>

\* CanonicalizerRuntime._get_from_cache: the cache it leaves (line 124
\* deletes an expired entry)
cache_after_get(key) ==
    IF /\ cn_enable_cache
       /\ cn_cache[key] # <<>>
       /\ expired(cn_now, cn_cache[key][1].timestamp)
    THEN [cn_cache EXCEPT ![key] = <<>>]
    ELSE cn_cache

\* a store that keeps only what the backend itself answered
_store_in_cache_llm_only(key, value) ==
    IF ~cn_enable_cache \/ value.variant = "fallback" THEN cn_cache
    ELSE [cn_cache EXCEPT ![key] = << [timestamp |-> cn_now,
                                        value     |-> value] >>]

\* CanonicalizerRuntime._store_in_cache
_store_in_cache(key, value) ==
    IF ~cn_enable_cache THEN cn_cache
    ELSE [cn_cache EXCEPT ![key] = << [timestamp |-> cn_now,
                                        value     |-> value] >>]

RunRecord(question, key, outcome, output) ==
    [ question |-> question, key |-> key, time |-> cn_now,
      outcome  |-> outcome,  output |-> output ]

IdleCanon ==
    /\ cn_pc = "idle"
    /\ cn_enable_cache = TRUE
    /\ cn_cache_ttl = <<>>
    /\ cn_cache = [k \in CacheKeys |-> <<>>]
    /\ cn_now = 0
    /\ cn_question = <<>>
    /\ cn_log = <<>>

InitCanon ==
    /\ cn_pc = "ready"
    /\ cn_enable_cache \in BOOLEAN
    /\ cn_cache_ttl \in CacheTtls
    /\ cn_cache = [k \in CacheKeys |-> <<>>]
    /\ cn_now = 0
    /\ cn_question = <<>>
    /\ cn_log = <<>>

\* the clock advances, between calls or while the backend is working
CN_Tick ==
    /\ cn_pc \in {"ready", "calling"}
    /\ cn_now < MaxTime
    /\ cn_now' = cn_now + 1
    /\ UNCHANGED <<cn_pc, cn_enable_cache, cn_cache_ttl, cn_cache,
                   cn_question, cn_log>>
    /\ CanonOnly

\* run, lines 61-63: a blank question raises ValueError
CN_RunRejects ==
    /\ cn_pc = "ready"
    /\ Len(cn_log) < MaxCanonCalls
    /\ \E question \in CanonQuestions :
          /\ strip(question) = <<>>
          /\ cn_log' = Append(cn_log,
                  RunRecord(question, <<>>, "ValueError", <<>>))
    /\ UNCHANGED <<cn_pc, cn_enable_cache, cn_cache_ttl, cn_cache, cn_now,
                   cn_question>>
    /\ CanonOnly

\* run, lines 65-68: the cache holds a live entry, which is returned
CN_RunHit ==
    /\ cn_pc = "ready"
    /\ Len(cn_log) < MaxCanonCalls
    /\ \E question \in CanonQuestions :
          LET normalized == strip(question) IN
          /\ normalized # <<>>
          /\ _get_from_cache(normalized) # <<>>
          /\ cn_log' = Append(cn_log,
                  RunRecord(question, normalized, "cached",
                            _get_from_cache(normalized)))
    /\ UNCHANGED <<cn_pc, cn_enable_cache, cn_cache_ttl, cn_cache, cn_now,
                   cn_question>>
    /\ CanonOnly

\* run, lines 65-70: no live entry, the backend is about to be called
CN_RunMiss ==
    /\ cn_pc = "ready"
    /\ Len(cn_log) < MaxCanonCalls
    /\ \E question \in CanonQuestions :
          LET normalized == strip(question) IN
          /\ normalized # <<>>
          /\ _get_from_cache(normalized) = <<>>
          /\ cn_cache' = cache_after_get(normalized)
          /\ cn_question' = question
    /\ cn_pc' = "calling"
    /\ UNCHANGED <<cn_enable_cache, cn_cache_ttl, cn_now, cn_log>>
    /\ CanonOnly

\* run, lines 70-86: call_canonicalizer returns or raises (then _fallback),
\* the output is stored and returned
CN_Backend ==
    /\ cn_pc = "calling"
    /\ \E outcome \in BackendOutcomes :
          LET normalized == strip(cn_question)
              output     == CanonOutput(normalized, outcome)
          IN  /\ cn_cache' = _store_in_cache(normalized, output)
              /\ cn_log' = Append(cn_log,
                      RunRecord(cn_question, normalized, "backend",
                                <<output>>))
    /\ cn_question' = <<>>
    /\ cn_pc' = "ready"
    /\ UNCHANGED <<cn_enable_cache, cn_cache_ttl, cn_now>>
    /\ CanonOnly

NextCanon ==
    \/ CN_Tick
    \/ CN_RunRejects
    \/ CN_RunHit
    \/ CN_RunMiss
    \/ CN_Backend

-----------------------------------------------------------------------------
(* LLMClient._call_llm_with_retry *)

\* reasons _classify_llm_error tells apart
LLMErrorReasons == { "timeout", "throttled", "connection", "empty", "error" }

\* _classify_llm_error of the RuntimeError raised for the dummy backend
DUMMY_REASON == "error"

Backends == { "ollama", "dummy" }

\* random.uniform(0, retry_delay): its two extremes, in units of retry_delay
Jitters == { 0, 1 }

\* retry_delay * (2 ** (attempt - 1)), in units of retry_delay
backoff(attempt) == 2 ^ (attempt - 1)

\* a retry test that lets the last attempt sleep and go round again
may_retry_through_last(attempt) == attempt <= lr_max_retries

\* line 227: a failed attempt is retried while attempt < max_retries
may_retry(attempt) == attempt < lr_max_retries

AttemptRecord(invoked, result) == [invoked |-> invoked, result |-> result]

\* reasons an attempt may fail with under the configured backend
FailureReasons ==
    IF lr_backend = "dummy" THEN { DUMMY_REASON } ELSE LLMErrorReasons

IdleRetry ==
    /\ lr_pc = "idle"
    /\ lr_max_retries = 3
    /\ lr_backend = "dummy"
    /\ lr_attempt = 1
    /\ lr_outcomes = <<>>
    /\ lr_sleeps = <<>>
    /\ lr_status = <<>>
    /\ lr_result = "pending"

\* line 90: int(os.getenv("NSLA_LLM_MAX_RETRIES", "3")), any integer
MaxRetriesValues == {-1} \cup (0..MaxRetriesBound)

InitRetry ==
    /\ lr_pc = "loop"
    /\ lr_max_retries \in MaxRetriesValues
    /\ lr_backend \in Backends
    /\ lr_attempt = 1
    /\ lr_outcomes = <<>>
    /\ lr_sleeps = <<>>
    /\ lr_status = <<>>
    /\ lr_result = "pending"

\* lines 205-214: _call_ollama returns; status "ok" is recorded
LR_AttemptSucceeds ==
    /\ lr_pc = "loop"
    /\ lr_attempt <= lr_max_retries
    /\ lr_backend # "dummy"
    /\ lr_outcomes' = Append(lr_outcomes, AttemptRecord(TRUE, "ok"))
    /\ lr_status' = <<"ok">>
    /\ lr_result' = "response"
    /\ lr_pc' = "returned"
    /\ UNCHANGED <<lr_max_retries, lr_backend, lr_attempt, lr_sleeps>>
    /\ RetryOnly

\* lines 216-231: the attempt fails and is retried after the backoff sleep
LR_AttemptFailsRetry ==
    /\ lr_pc = "loop"
    /\ lr_attempt <= lr_max_retries
    /\ may_retry(lr_attempt)
    /\ \E reason \in FailureReasons, jitter \in Jitters :
          /\ lr_outcomes' = Append(lr_outcomes,
                  AttemptRecord(lr_backend # "dummy", reason))
          /\ lr_sleeps' = Append(lr_sleeps,
                  [delay |-> backoff(lr_attempt), jitter |-> jitter])
    /\ lr_attempt' = lr_attempt + 1
    /\ UNCHANGED <<lr_pc, lr_max_retries, lr_backend, lr_status, lr_result>>
    /\ RetryOnly

\* lines 216-226 and 232-240: the last attempt fails; the reason is recorded
\* and LLMCallError raised
LR_AttemptFailsRaise ==
    /\ lr_pc = "loop"
    /\ lr_attempt <= lr_max_retries
    /\ ~may_retry(lr_attempt)
    /\ \E reason \in FailureReasons :
          /\ lr_outcomes' = Append(lr_outcomes,
                  AttemptRecord(lr_backend # "dummy", reason))
          /\ lr_status' = <<reason>>
    /\ lr_result' = "LLMCallError"
    /\ lr_pc' = "raised"
    /\ UNCHANGED <<lr_max_retries, lr_backend, lr_attempt, lr_sleeps>>
    /\ RetryOnly

\* line 204: range(1, max_retries + 1) is used up; the function falls off
\* its end and returns None
LR_RangeExhausted ==
    /\ lr_pc = "loop"
    /\ lr_attempt > lr_max_retries
    /\ lr_result' = "None"
    /\ lr_pc' = "returned"
    /\ UNCHANGED <<lr_max_retries, lr_backend, lr_attempt, lr_outcomes,
                   lr_sleeps, lr_status>>
    /\ RetryOnly

NextRetry ==
    \/ LR_AttemptSucceeds
    \/ LR_AttemptFailsRetry
    \/ LR_AttemptFailsRaise
    \/ LR_RangeExhausted

-----------------------------------------------------------------------------
(* LLMClient._llm_status over successive run_once requests *)

\* operation names passed to _record_llm_status
Operations ==
    {"Canonicalizer", "Structured Extractor", "Refinement LLM", "Judge LLM"}

\* statuses an operation records: "ok" or a failure reason; Unset marks a
\* key the dict does not hold
Unset == "unset"
StatusValues == {"ok", "timeout"}
MaybeStatus == StatusValues \cup { Unset }

NoStatuses == [op \in Operations |-> Unset]

\* _record_llm_status: self._llm_status[operation] = status; an operation
\* that made no LLM call (cache hit, dummy backend, no judge) records nothing
_record_llm_status(statuses, operation, status) ==
    IF status = Unset THEN statuses
    ELSE [statuses EXCEPT ![operation] = status]

\* dict.update
update(target, other) ==
    [op \in Operations |->
        IF other[op] # Unset THEN other[op] ELSE target[op]]

\* pop_llm_statuses returns a copy of the map ...
pop_llm_statuses(statuses) == statuses

\* ... and clears the client's map
cleared(statuses) == NoStatuses

IdleStatus ==
    /\ ls_pc = "idle"
    /\ _llm_status = NoStatuses
    /\ ls_llm_status = NoStatuses
    /\ ls_recorded = NoStatuses
    /\ ls_responses = <<>>
    /\ ls_served = <<>>

\* a fresh LLMClient (self._llm_status = {}) before its first request
InitStatus ==
    /\ ls_pc = "start"
    /\ _llm_status = NoStatuses
    /\ ls_llm_status = NoStatuses
    /\ ls_recorded = NoStatuses
    /\ ls_responses = <<>>
    /\ ls_served = <<>>

\* run_once line 80, _prepare_phase2_context lines 254-270: the canonicalizer
\* and the structured extractor calls record their statuses, then the map is
\* popped into llm_status
LS_Prepare ==
    /\ ls_pc = "start"
    /\ Len(ls_responses) < MaxRequests
    /\ \E canon \in MaybeStatus, extractor \in MaybeStatus :
          LET after ==
                _record_llm_status(
                    _record_llm_status(_llm_status, "Canonicalizer", canon),
                    "Structured Extractor", extractor)
          IN  /\ ls_llm_status' = pop_llm_statuses(after)
              /\ _llm_status' = cleared(after)
              /\ ls_recorded' =
                    _record_llm_status(
                        _record_llm_status(NoStatuses, "Canonicalizer", canon),
                        "Structured Extractor", extractor)
    /\ ls_pc' = "prepared"
    /\ UNCHANGED <<ls_responses, ls_served>>
    /\ StatusOnly

\* run_once lines 91-99: the refinement call records its status, then the map
\* is popped and merged into llm_status
LS_Refine ==
    /\ ls_pc = "prepared"
    /\ \E refinement \in MaybeStatus :
          LET after ==
                _record_llm_status(_llm_status, "Refinement LLM", refinement)
          IN  /\ ls_llm_status' = update(ls_llm_status, pop_llm_statuses(after))
              /\ _llm_status' = cleared(after)
              /\ ls_recorded' =
                    _record_llm_status(ls_recorded, "Refinement LLM", refinement)
    /\ ls_pc' = "refined"
    /\ UNCHANGED <<ls_responses, ls_served>>
    /\ StatusOnly

\* run_once lines 109-125 (and 130-145), _build_guardrail_failure_result: the
\* result carries llm_status; _maybe_run_judge returns None without a call
LS_GuardrailFails ==
    /\ ls_pc = "refined"
    /\ ls_responses' = Append(ls_responses, ls_llm_status)
    /\ ls_served' = Append(ls_served, ls_recorded)
    /\ ls_llm_status' = NoStatuses
    /\ ls_recorded' = NoStatuses
    /\ ls_pc' = "start"
    /\ UNCHANGED _llm_status
    /\ StatusOnly

\* run_once lines 160-180: the result is built with llm_status, then
\* _maybe_run_judge runs; call_judge_metric records the "Judge LLM" status
\* in the client's map, and run_once returns the result
LS_Success ==
    /\ ls_pc = "refined"
    /\ \E judge \in MaybeStatus :
          /\ _llm_status' = _record_llm_status(_llm_status, "Judge LLM", judge)
          /\ ls_served' = Append(ls_served,
                _record_llm_status(ls_recorded, "Judge LLM", judge))
    /\ ls_responses' = Append(ls_responses, ls_llm_status)
    /\ ls_llm_status' = NoStatuses
    /\ ls_recorded' = NoStatuses
    /\ ls_pc' = "start"
    /\ StatusOnly

NextStatus ==
    \/ LS_Prepare
    \/ LS_Refine
    \/ LS_GuardrailFails
    \/ LS_Success

-----------------------------------------------------------------------------
(* NSLAPipelineV2._evaluate_with_fact_synthesis, pipeline_v2.py 385-441 *)

\* predicate names of the programs explored; "U" is never declared
FactPredicates == {"A", "B", "C", "D"}
DeclaredChoices == { FactPredicates, {"A", "B"} }
InitialAxiomChoices == { {}, {"A"} }

\* missing_links lists the solver feedback may carry
MissingLinkChoices ==
    { {}, {"A"}, {"B"}, {"C"}, {"D"}, {"A", "B"}, {"U"}, {"B", "U"} }

\* feedbacks build_logic_feedback may return for some program
SynthFeedbacks ==
    { [status |-> st, missing_links |-> ml] :
        st \in {CE, CNE, INC}, ml \in MissingLinkChoices }

\* a loop test that lets one more round through
rounds_exhausted_late(attempts_) == attempts_ > FACT_SYNTHESIS_MAX_ROUNDS

\* line 393: attempts >= self.FACT_SYNTHESIS_MAX_ROUNDS
rounds_exhausted(attempts_) == attempts_ >= FACT_SYNTHESIS_MAX_ROUNDS

\* lines 390-395: the feedback is returned without a synthesis round
returns_at_once(feedback, attempts_) ==
    \/ feedback.missing_links = {}
    \/ feedback.status # CNE
    \/ rounds_exhausted(attempts_)

\* _synthesize_missing_facts lines 420-439: the facts appended to
\* program.axioms, one per missing link that is declared and whose formula
\* is not an axiom yet
new_facts(predicates, axioms, missing_links) ==
    { p \in missing_links : p \in predicates /\ p \notin axioms }

Evaluation(feedback, attempts_, added) ==
    [status |-> feedback.status, missing_links |-> feedback.missing_links,
     attempts |-> attempts_, added |-> added]

IdleSynth ==
    /\ sy_pc = "idle"
    /\ sy_predicates = {}
    /\ sy_axioms = {}
    /\ sy_attempts = 0
    /\ sy_log = <<>>
    /\ sy_feedback = <<>>

\* line 386: attempts = 0
InitSynth ==
    /\ sy_pc = "loop"
    /\ sy_predicates \in DeclaredChoices
    /\ sy_axioms \in InitialAxiomChoices
    /\ sy_attempts = 0
    /\ sy_log = <<>>
    /\ sy_feedback = <<>>

\* lines 388-395: the solver is evaluated and the feedback returned
SY_EvaluateReturns ==
    /\ sy_pc = "loop"
    /\ \E feedback \in SynthFeedbacks :
          /\ returns_at_once(feedback, sy_attempts)
          /\ sy_log' = Append(sy_log, Evaluation(feedback, sy_attempts, FALSE))
          /\ sy_feedback' = <<feedback>>
    /\ sy_pc' = "done"
    /\ UNCHANGED <<sy_predicates, sy_axioms, sy_attempts>>
    /\ SynthOnly

\* lines 388-398: the synthesis round adds no axiom; the feedback is returned
SY_NothingAdded ==
    /\ sy_pc = "loop"
    /\ \E feedback \in SynthFeedbacks :
          /\ ~returns_at_once(feedback, sy_attempts)
          /\ new_facts(sy_predicates, sy_axioms, feedback.missing_links) = {}
          /\ sy_log' = Append(sy_log, Evaluation(feedback, sy_attempts, FALSE))
          /\ sy_feedback' = <<feedback>>
    /\ sy_pc' = "done"
    /\ UNCHANGED <<sy_predicates, sy_axioms, sy_attempts>>
    /\ SynthOnly

\* lines 388-399: the synthesis round adds axioms; attempts += 1 and the
\* loop goes round
SY_Synthesized ==
    /\ sy_pc = "loop"
    /\ \E feedback \in SynthFeedbacks :
          LET facts ==
                new_facts(sy_predicates, sy_axioms, feedback.missing_links)
          IN  /\ ~returns_at_once(feedback, sy_attempts)
              /\ facts # {}
              /\ sy_axioms' = sy_axioms \cup facts
              /\ sy_log' =
                    Append(sy_log, Evaluation(feedback, sy_attempts, TRUE))
    /\ sy_attempts' = sy_attempts + 1
    /\ UNCHANGED <<sy_pc, sy_predicates, sy_feedback>>
    /\ SynthOnly

\* line 388: build_solver raises on the program
SY_BuildRaises ==
    /\ sy_pc = "loop"
    /\ sy_pc' = "raised"
    /\ UNCHANGED <<sy_predicates, sy_axioms, sy_attempts, sy_log, sy_feedback>>
    /\ SynthOnly

NextSynth ==
    \/ SY_EvaluateReturns
    \/ SY_NothingAdded
    \/ SY_Synthesized
    \/ SY_BuildRaises

-----------------------------------------------------------------------------
(* Normalization of a logic program: _sanitize_logic_program,
   _hydrate_logic_program, ensure_canonical_query_rule and run_guardrail.

   An expression is the sequence of its tokens: names, "(", ")", "," and the
   blank " ".  A program is modelled by its dsl_version, predicates (name ->
   declared arity), axioms, rules and query; sorts, constants and facts are
   left out.  The programs explored use canonical predicate names only and
   hold no comparison operator, Unicode connective or numeric literal, so
   alias resolution, _strip_comparisons and _coerce_numeric_literals leave
   their expressions as they are. *)

\* logic_dsl.DSL_VERSION
CANONICAL_DSL_VERSION == "2.1"

Punctuation == {"(", ")", ",", " "}

\* StructuredExtractorRuntime.LOGICAL_KEYWORDS (the names among them)
LOGICAL_KEYWORDS ==
    {"and", "or", "not", "implies", "exists", "forall", "true", "false"}

\* names of logic_dsl.PREDICATES used by the programs explored
RegistryNames ==
    {"ContrattoValido", "Consenso", "CapacitaContrattuale", "CausaLegittima",
     "OggettoDeterminato", "FormaPrescritta"}

\* get_predicate_signature(name)[0] = len(PREDICATES[name].args)
registry_arity(name) ==
    IF name \in {"ContrattoValido", "Consenso"} THEN 2 ELSE 1

Tokens(text) == { text[i] : i \in 1..Len(text) }

\* rule.get("id") of a dict without the key
NoKey == "<no key>"

\* ---- text helpers ----------------------------------------------------------

\* runs of blanks become one blank
RECURSIVE squeeze(_)
squeeze(text) ==
    IF Len(text) < 2 THEN text
    ELSE IF text[1] = " " /\ text[2] = " " THEN squeeze(Tail(text))
    ELSE <<text[1]>> \o squeeze(Tail(text))

\* pipeline_v2.py lines 726-742: str(expr).strip(), " ".join(text.split());
\* None gives ""
_sanitize_expression(expr) == squeeze(strip(expr))

FirstIndex(text, tok) ==
    CHOOSE i \in 1..Len(text) :
        text[i] = tok /\ \A j \in 1..(i - 1) : text[j] # tok

\* str.split(tok)
RECURSIVE split(_, _)
split(text, tok) ==
    IF tok \notin Tokens(text) THEN <<text>>
    ELSE LET i == FirstIndex(text, tok)
         IN  <<SubSeq(text, 1, i - 1)>>
                \o split(SubSeq(text, i + 1, Len(text)), tok)

\* [arg.strip() for arg in parts if arg.strip()]
stripped_nonempty(parts) ==
    SelectSeq([i \in 1..Len(parts) |-> strip(parts[i])],
              LAMBDA part : part # <<>>)

\* sep.join(args)
RECURSIVE join(_, _)
join(args, sep) ==
    IF args = <<>> THEN <<>>
    ELSE IF Len(args) = 1 THEN args[1]
    ELSE args[1] \o sep \o join(Tail(args), sep)

\* f"{name}({', '.join(args)})"
Atom(name, args) == name \o <<"(">> \o join(args, <<",", " ">>) \o <<")">>

\* ---- programs --------------------------------------------------------------

NoQuery == [kind |-> "none", text |-> <<>>, pred |-> <<>>, args |-> <<>>]
StrQuery(text) == [kind |-> "str", text |-> text, pred |-> <<>>, args |-> <<>>]
DictQuery(pred, args) ==
    [kind |-> "dict", text |-> <<>>, pred |-> pred, args |-> args]

Rule(condition, conclusion, id) ==
    [condition |-> condition, conclusion |-> conclusion, id |-> id]

NoDeclarations == [name \in {} |-> 0]

\* ---- canonical_rule_utils.py ----------------------------------------------

NoAtom == <<>>

\* lines 131-154: (raw, name, args) of the query, NoAtom for None
_extract_query_atom(query) ==
    IF query.kind = "dict" THEN
        LET name == strip(query.pred)
            args_list == stripped_nonempty(query.args)
        IN  IF name = <<>> THEN NoAtom
            ELSE <<[raw |-> IF args_list # <<>> THEN Atom(name, args_list)
                            ELSE name,
                    predicate |-> name, args |-> args_list]>>
    ELSE IF query.kind # "str" THEN NoAtom
    ELSE LET text == strip(query.text)
         IN  IF text = <<>> THEN NoAtom
             ELSE IF "(" \notin Tokens(text) \/ text[Len(text)] # ")"
             THEN <<[raw |-> text, predicate |-> text, args |-> <<>>]>>
             ELSE LET i == FirstIndex(text, "(")
                      args_body == SubSeq(text, i + 1, Len(text) - 1)
                  IN  <<[raw |-> text,
                         predicate |-> strip(SubSeq(text, 1, i - 1)),
                         args |-> stripped_nonempty(split(args_body, ","))]>>

\* lines 157-163
_has_rule_for_query(rules, target_conclusion) ==
    \E i \in 1..Len(rules) : strip(rules[i].conclusion) = target_conclusion

\* lines 166-170
_build_conclusion(predicate, args) ==
    IF args # <<>> THEN Atom(predicate, args) ELSE predicate \o <<"(", ")">>

\* lines 47-58: the condition of the ContrattoValido rule
contratto_valido_condition(args) ==
    <<"(", "and", " ">>
        \o Atom(<<"Consenso">>, <<args[1], args[2]>>) \o <<" ">>
        \o Atom(<<"CapacitaContrattuale">>, <<args[1]>>) \o <<" ">>
        \o Atom(<<"CausaLegittima">>, <<args[2]>>) \o <<" ">>
        \o Atom(<<"OggettoDeterminato">>, <<args[2]>>) \o <<" ">>
        \o Atom(<<"FormaPrescritta">>, <<args[2]>>)
        \o <<")">>

\* lines 47-58: the rule dict has no "id" key; <<>> is None
_build_rule_contratto_valido(args) ==
    IF Len(args) # 2 THEN <<>>
    ELSE <<Rule(contratto_valido_condition(args),
                _build_conclusion(<<"ContrattoValido">>, args), NoKey)>>

\* lines 117-123: of the five builders the one for ContrattoValido is
\* modelled; the queries explored name no other predicate of the table
_CANONICAL_RULE_BUILDERS == { <<"ContrattoValido">> }

\* lines 13-39
ensure_canonical_query_rule(program) ==
    LET atom == _extract_query_atom(program.query)
    IN  IF atom = NoAtom THEN program
        ELSE IF atom[1].predicate \notin _CANONICAL_RULE_BUILDERS THEN program
        ELSE IF _has_rule_for_query(program.rules, atom[1].raw) THEN program
        ELSE LET rule == _build_rule_contratto_valido(atom[1].args)
             IN  IF rule = <<>> THEN program
                 ELSE [program EXCEPT !.rules =
                          Append(@, [rule[1] EXCEPT !.conclusion = atom[1].raw])]

\* ---- NSLAPipelineV2._sanitize_logic_program, lines 666-714 -----------------

sanitized_axioms(axioms) ==
    SelectSeq([i \in 1..Len(axioms) |->
                  [formula |-> _sanitize_expression(axioms[i].formula)]],
              LAMBDA entry : entry.formula # <<>>)

\* lines 684-700: entry.get("id") is None for a rule without the key
sanitized_rules(rules) ==
    SelectSeq([i \in 1..Len(rules) |->
                  Rule(IF _sanitize_expression(rules[i].condition) = <<>>
                       THEN <<"true">>
                       ELSE _sanitize_expression(rules[i].condition),
                       _sanitize_expression(rules[i].conclusion),
                       IF rules[i].id = NoKey THEN "None" ELSE rules[i].id)],
              LAMBDA entry : entry.conclusion # <<>>)

\* lines 702-711: a dict query becomes the string name(arg,arg)
sanitized_query(query) ==
    IF query.kind # "dict" THEN query
    ELSE LET name == strip(query.pred)
             clean_args == stripped_nonempty(query.args)
             joined == join(clean_args, <<",">>)
         IN  IF name = <<>> THEN NoQuery
             ELSE IF joined # <<>>
             THEN StrQuery(name \o <<"(">> \o joined \o <<")">>)
             ELSE StrQuery(name)

_sanitize_logic_program(program) ==
    [program EXCEPT !.axioms = sanitized_axioms(@),
                    !.rules = sanitized_rules(@),
                    !.query = sanitized_query(@)]

\* ---- hydration -------------------------------------------------------------

\* re.findall(r"([A-Za-z_][A-Za-z0-9_]*)\s*\(", expr): the names followed,
\* after blanks at most, by "("
applied_in(text) ==
    { text[i] : i \in { k \in 1..Len(text) :
        /\ text[k] \notin Punctuation
        /\ \E j \in (k + 1)..Len(text) :
              /\ text[j] = "("
              /\ \A m \in (k + 1)..(j - 1) : text[m] = " " } }

\* structured_extractor.py lines 430-462
_collect_predicate_candidates(program) ==
    ( UNION { applied_in(program.rules[i].condition)
                \cup applied_in(program.rules[i].conclusion) :
                i \in 1..Len(program.rules) }
      \cup UNION { applied_in(program.axioms[i].formula) :
                     i \in 1..Len(program.axioms) }
      \cup (IF program.query.kind = "str"
            THEN applied_in(program.query.text) ELSE {}) )
    \ LOGICAL_KEYWORDS

\* the declaration given to a predicate that is used but not declared:
\* the registry signature, or arity 0
auto_declared(declared, candidates) ==
    [name \in DOMAIN declared \cup candidates |->
        IF name \in DOMAIN declared THEN declared[name]
        ELSE IF name \in RegistryNames THEN registry_arity(name)
        ELSE 0]

\* structured_extractor.py lines 319-382: a declared registry predicate
\* gets the registry arity, whatever arity was declared; then the
\* predicates used in rules, axioms and query are declared
_hydrate_predicates(program) ==
    LET normalized ==
          [name \in DOMAIN program.predicates |->
              IF name \in RegistryNames THEN registry_arity(name)
              ELSE program.predicates[name]]
    IN  [program EXCEPT !.predicates =
            auto_declared(normalized, _collect_predicate_candidates(program))]

\* pipeline_v2.py lines 498-525
_ensure_declared_predicates(program) ==
    [program EXCEPT !.predicates =
        auto_declared(@, _collect_predicate_candidates(program))]

\* pipeline_v2.py lines 716-724
_hydrate_logic_program(program) ==
    _ensure_declared_predicates(_hydrate_predicates(program))

\* the three steps of run_once lines 103-105 and of
\* _prepare_phase2_context lines 266-268
normalize(program) ==
    ensure_canonical_query_rule(
        _hydrate_logic_program(_sanitize_logic_program(program)))

\* ---- StructuredExtractorRuntime.run, lines 107-164 -------------------------

enforce_dsl_version == "2.1"

extractor_run(program) ==
    ensure_canonical_query_rule(
        _hydrate_predicates(
            [program EXCEPT !.dsl_version = enforce_dsl_version,
                            !.axioms = sanitized_axioms(@),
                            !.rules = sanitized_rules(@)]))

\* ---- run_guardrail, guardrail_checker.py lines 43-194 ----------------------

\* a guardrail that takes any dsl_version
version_issues_none(program) == {}

\* lines 56-64
version_issues(program) ==
    IF program.dsl_version # CANONICAL_DSL_VERSION
    THEN {"DSL_VERSION_MISMATCH"} ELSE {}

\* lines 97-123
declaration_issues(program) ==
    (IF \E name \in DOMAIN program.predicates : name \notin RegistryNames
     THEN {"UNKNOWN_PREDICATE_DECLARATION"} ELSE {})
    \cup
    (IF \E name \in DOMAIN program.predicates :
            /\ name \in RegistryNames
            /\ program.predicates[name] # registry_arity(name)
     THEN {"PREDICATE_ARITY_MISMATCH"} ELSE {})

\* lines 145-148: the predicates handed to the strict parser
canonical_predicates(program) == DOMAIN program.predicates \cap RegistryNames

\* lines 162-191: the strict parser meets a predicate that was not loaded
parse_issues(program) ==
    (IF \E i \in 1..Len(program.rules) :
            ~ (applied_in(program.rules[i].condition)
                 \cup applied_in(program.rules[i].conclusion)) \ LOGICAL_KEYWORDS
              \subseteq canonical_predicates(program)
     THEN {"RULE_UNKNOWN_PREDICATE"} ELSE {})
    \cup
    (IF /\ program.query.kind = "str"
        /\ ~ applied_in(program.query.text) \subseteq canonical_predicates(program)
     THEN {"QUERY_PARSE_ERROR"} ELSE {})

\* the codes of GuardrailResult.issues; ok is issues == []
guardrail_issues(program) ==
    version_issues(program) \cup declaration_issues(program)
        \cup parse_issues(program)

\* ---- the programs explored -------------------------------------------------

DslVersions == {"2.1", "1.0"}

Args_ab == << <<"a">>, <<"b">> >>

QuerySpaced == <<"ContrattoValido", "(", "a", ",", " ", "b", ")">>
QueryWide   == <<"ContrattoValido", "(", "a", ",", " ", " ", "b", ")">>
QueryTight  == <<"ContrattoValido", "(", "a", ",", "b", ")">>
QueryOneArg == <<"ContrattoValido", "(", "a", ")">>
QueryOther  == <<"Altro", "(", "a", ")">>

QueryChoices ==
    { NoQuery, StrQuery(QuerySpaced), StrQuery(QueryWide),
      StrQuery(QueryTight), StrQuery(QueryOneArg), StrQuery(QueryOther),
      DictQuery(<<"ContrattoValido">>, Args_ab) }

PremisesDeclared ==
    [name \in RegistryNames |-> registry_arity(name)]

DeclarationChoices ==
    { NoDeclarations,
      [name \in {"ContrattoValido"} |-> 3],
      [PremisesDeclared EXCEPT !["ContrattoValido"] = 3],
      PremisesDeclared,
      [name \in {"Altro"} |-> 1] }

RuleListChoices ==
    { <<>>,
      <<Rule(Atom(<<"Consenso">>, Args_ab), QuerySpaced, "r1")>>,
      <<Rule(Atom(<<"Consenso">>, Args_ab), QueryOther, NoKey)>> }

AxiomListChoices ==
    { <<>>, <<[formula |-> Atom(<<"Consenso">>, Args_ab)]>> }

RawPrograms ==
    { [dsl_version |-> v, predicates |-> d, axioms |-> a, rules |-> r,
       query |-> q] :
        v \in DslVersions, d \in DeclarationChoices, a \in AxiomListChoices,
        r \in RuleListChoices, q \in QueryChoices }

EmptyProgram ==
    [dsl_version |-> "1.0", predicates |-> NoDeclarations, axioms |-> <<>>,
     rules |-> <<>>, query |-> NoQuery]

IdleNormalize ==
    /\ nm_pc = "idle"
    /\ nm_kind = "v1"
    /\ nm_input = EmptyProgram
    /\ nm_program = EmptyProgram
    /\ nm_previous = EmptyProgram
    /\ nm_passes = 0
    /\ nm_guardrail = <<>>
    /\ nm_fallback_used = FALSE

\* the program as the LLM returned it: call_structured_extractor has turned
\* a dict query into a string (llm_client.py lines 999-1008), the refinement
\* output is taken as it is (pipeline_v2.py line 102)
InitNormalize ==
    /\ nm_pc = "raw"
    /\ nm_kind \in {"v1", "refined"}
    /\ nm_input \in RawPrograms
    /\ nm_kind = "v1" => nm_input.query.kind # "dict"
    /\ nm_program = nm_input
    /\ nm_previous = nm_input
    /\ nm_passes = 0
    /\ nm_guardrail = <<>>
    /\ nm_fallback_used = FALSE

\* _prepare_phase2_context lines 261-265: structured_extractor.run
NM_ExtractorRun ==
    /\ nm_pc = "raw"
    /\ nm_kind = "v1"
    /\ nm_program' = extractor_run(nm_program)
    /\ nm_pc' = "extracted"
    /\ UNCHANGED <<nm_kind, nm_input, nm_previous, nm_passes, nm_guardrail,
                   nm_fallback_used>>
    /\ NormalizeOnly

\* run_once lines 103-105, _prepare_phase2_context lines 266-268 and, for a
\* program normalized before, IterationManager.run lines 81-83
NM_Normalize ==
    /\ \/ nm_pc = "raw" /\ nm_kind = "refined"
       \/ nm_pc = "extracted"
       \/ nm_pc = "normalized"
    /\ nm_passes < MaxPasses
    /\ nm_previous' = nm_program
    /\ nm_program' = normalize(nm_program)
    /\ nm_passes' = nm_passes + 1
    /\ nm_pc' = "normalized"
    /\ UNCHANGED <<nm_kind, nm_input, nm_guardrail, nm_fallback_used>>
    /\ NormalizeOnly

\* run_once lines 108-125: the guardrail on the refined program; a failed
\* guardrail gives the result of _build_guardrail_failure_result
NM_Guardrail ==
    /\ nm_pc = "normalized"
    /\ nm_kind = "refined"
    /\ nm_passes = 1
    /\ nm_guardrail' = <<guardrail_issues(nm_program)>>
    /\ nm_fallback_used' = (guardrail_issues(nm_program) # {})
    /\ nm_pc' = "checked"
    /\ UNCHANGED <<nm_kind, nm_input, nm_program, nm_previous, nm_passes>>
    /\ NormalizeOnly

NextNormalize ==
    \/ NM_ExtractorRun
    \/ NM_Normalize
    \/ NM_Guardrail

-----------------------------------------------------------------------------
(* run_guardrail: predicate declarations against the registry signature    *)
(* src/app/guardrail_checker.py lines 97-161                                *)

\* longest declared sort list and largest declared arity explored
MaxSorts == 2
MaxArity == 3

\* the sorts of the registry that the declarations explored can name
SORTS == {"Debitore", "Contratto", "Soggetto"}

\* a sort name resolve_sort_alias leaves as it is and SORTS does not hold
UnknownSort == "Ignoto"

\* PREDICATES[name].args for the registry predicates explored
PREDICATES ==
    [name \in {"ContrattoValido", "CapacitaContrattuale"} |->
        IF name = "ContrattoValido" THEN <<"Debitore", "Contratto">>
        ELSE <<"Soggetto">>]

\* lines 113-114: arity defaults to the registry's when the key is absent
declared_arity(meta, expected_arity) ==
    IF meta.arity = <<>> THEN expected_arity ELSE meta.arity[1]

arity_mismatch_never(expected_arity, actual_arity) == FALSE

\* line 115
arity_mismatch(expected_arity, actual_arity) == expected_arity # actual_arity

\* line 125: meta.get("sorts") or list(spec.args)
declared_sorts(meta, args) == IF meta.sorts = <<>> THEN args ELSE meta.sorts

\* lines 127-137: a sort is only tested for membership in SORTS
sort_unknown(sorts) == \E i \in 1..Len(sorts) : sorts[i] \notin SORTS

\* lines 138-148: the arity is the registry's by now; a sort list of another
\* length is replaced by the registry signature, any other list is kept
canonical_declaration(name, meta) ==
    LET args == PREDICATES[name]
        sorts == declared_sorts(meta, args)
    IN  [arity |-> Len(args),
         sorts |-> IF Len(sorts) # Len(args) THEN args ELSE sorts]

\* lines 99-137: the issues one declaration adds
predicate_issues(name, meta) ==
    IF name \notin DOMAIN PREDICATES
    THEN {"UNKNOWN_PREDICATE_DECLARATION"}
    ELSE LET args == PREDICATES[name]
         IN  (IF arity_mismatch(Len(args), declared_arity(meta, Len(args)))
              THEN {"PREDICATE_ARITY_MISMATCH"} ELSE {})
             \cup
             (IF sort_unknown(declared_sorts(meta, args))
              THEN {"PREDICATE_SORT_UNKNOWN"} ELSE {})

\* lines 151-160 with translator.py lines 272-275: parse_predicates raises
\* InvalidArityError when a sort list and the arity disagree
invalid_arity(canonical) ==
    \E name \in DOMAIN canonical :
        Len(canonical[name].sorts) # canonical[name].arity

canonical_of(predicates) ==
    [name \in DOMAIN predicates \cap DOMAIN PREDICATES |->
        canonical_declaration(name, predicates[name])]

declarations_issues(predicates) ==
    UNION { predicate_issues(name, predicates[name]) :
                name \in DOMAIN predicates }
    \cup (IF invalid_arity(canonical_of(predicates))
          THEN {"INVALID_ARITY"} ELSE {})

\* ---- the declarations explored ---------------------------------------------

SortNames == {"Debitore", "Contratto", UnknownSort}

SortLists == UNION { [1..n -> SortNames] : n \in 0..MaxSorts }

ArityChoices == {<<>>} \cup { <<n>> : n \in 0..MaxArity }

Metas == [arity : ArityChoices, sorts : SortLists]

AltroMeta == [arity |-> <<1>>, sorts |-> <<>>]

RegistryPrograms ==
    UNION { [names -> Metas] :
              names \in SUBSET {"ContrattoValido", "CapacitaContrattuale"} }

\* the same program with a predicate the registry does not know
WithAltro(p) ==
    [name \in DOMAIN p \cup {"Altro"} |->
        IF name = "Altro" THEN AltroMeta ELSE p[name]]

DeclaredPrograms ==
    RegistryPrograms \cup { WithAltro(p) : p \in RegistryPrograms }

NoPredicates == [name \in {} |-> [arity |-> <<>>, sorts |-> <<>>]]

IdleDeclare ==
    /\ gd_pc = "idle"
    /\ gd_predicates = NoPredicates
    /\ gd_canonical = NoPredicates
    /\ gd_issues = {}

InitDeclare ==
    /\ gd_pc = "start"
    /\ gd_predicates \in DeclaredPrograms
    /\ gd_canonical = NoPredicates
    /\ gd_issues = {}

\* run_guardrail on a 2.1 program without sorts, constants, rules and query:
\* ok is issues == []
GD_Accepts ==
    /\ gd_pc = "start"
    /\ declarations_issues(gd_predicates) = {}
    /\ gd_pc' = "done"
    /\ gd_canonical' = canonical_of(gd_predicates)
    /\ gd_issues' = {}
    /\ UNCHANGED gd_predicates
    /\ DeclareOnly

GD_Rejects ==
    /\ gd_pc = "start"
    /\ declarations_issues(gd_predicates) # {}
    /\ gd_pc' = "done"
    /\ gd_canonical' = canonical_of(gd_predicates)
    /\ gd_issues' = declarations_issues(gd_predicates)
    /\ UNCHANGED gd_predicates
    /\ DeclareOnly

NextDeclare ==
    \/ GD_Accepts
    \/ GD_Rejects

-----------------------------------------------------------------------------
(* build_logic_feedback: src/app/logic_feedback.py lines 268-339            *)

\* most assertions the solver explored holds
MaxAssertions == 2

\* the list of conflicting axioms without its fallbacks
conflicting_of_assertions(solver, logic_program) ==
    IF solver.assertions = <<>> THEN <<>>
    ELSE [i \in 1..solver.assertions[1] |-> "assertion"]

\* lines 281-294: the heuristic list of conflicting axioms; solver.assertions
\* may raise (<<>>), and an empty list falls back to the rules, then to a
\* single placeholder
conflicting_of(solver, logic_program) ==
    LET from_assertions ==
            IF solver.assertions = <<>> THEN <<>>
            ELSE [i \in 1..solver.assertions[1] |-> "assertion"]
        from_rules ==
            IF from_assertions # <<>> THEN from_assertions
            ELSE [i \in 1..Len(logic_program.rules) |-> "rule"]
    IN  IF from_rules # <<>> THEN from_rules ELSE <<"conflict_0">>

\* lines 187-199
_rules_concluding(logic_program, conclusion_name) ==
    SelectSeq(logic_program.rules,
              LAMBDA r : r.conclusion = conclusion_name)

RECURSIVE dedup_from(_, _, _)
dedup_from(missing, target, kept) ==
    IF missing = <<>> THEN kept
    ELSE LET m == Head(missing)
             seen == { kept[i] : i \in 1..Len(kept) }
         IN  dedup_from(Tail(missing), target,
                        IF m = target \/ m \in seen THEN kept
                        ELSE Append(kept, m))

RECURSIVE atoms_not_entailed(_, _)
atoms_not_entailed(solver, atoms) ==
    IF atoms = <<>> THEN <<>>
    ELSE (IF Head(atoms) \in solver.entailed THEN <<>> ELSE <<Head(atoms)>>)
         \o atoms_not_entailed(solver, Tail(atoms))

RECURSIVE missing_of_rules(_, _)
missing_of_rules(solver, rules) ==
    IF rules = <<>> THEN <<>>
    ELSE atoms_not_entailed(solver, Head(rules).condition)
         \o missing_of_rules(solver, Tail(rules))

\* lines 203-248
_compute_missing_links_for_query(solver, logic_program, q_name) ==
    LET concl_rules == _rules_concluding(logic_program, q_name)
    IN  IF concl_rules = <<>> THEN <<q_name>>
        ELSE dedup_from(missing_of_rules(solver, concl_rules), q_name, <<>>)

\* lines 268-339; q_name is "" when no query was given, and an entailment
\* check that raises counts as not entailed
build_logic_feedback_on(solver, logic_program) ==
    IF solver.check = "unsat"
    THEN LogicFeedback(INC, <<>>, conflicting_of(solver, logic_program))
    ELSE IF logic_program.query = ""
    THEN LogicFeedback(CNE, <<>>, <<>>)
    ELSE IF ~ solver.raises /\ logic_program.query \in solver.entailed
    THEN LogicFeedback(CE, <<>>, <<>>)
    ELSE LogicFeedback(CNE,
            _compute_missing_links_for_query(solver, logic_program,
                                             logic_program.query),
            <<>>)

\* ---- the solvers and programs explored --------------------------------------

Solvers ==
    [check : {"unsat", "sat", "unknown"},
     assertions : {<<>>} \cup { <<n>> : n \in 0..MaxAssertions },
     entailed : SUBSET {"Q", "A", "B"},
     raises : BOOLEAN]

FeedbackRules ==
    [condition : {<<>>, <<"A">>, <<"A", "B">>, <<"Q", "A", "A">>},
     conclusion : {"Q", "R"}]

FeedbackPrograms ==
    [rules : UNION { [1..n -> FeedbackRules] : n \in 0..2 },
     query : {"", "Q"}]

NoSolver == [check |-> "sat", assertions |-> <<>>, entailed |-> {},
             raises |-> FALSE]

NoRules == [rules |-> <<>>, query |-> ""]

IdleFeedback ==
    /\ fb_pc = "idle"
    /\ fb_solver = NoSolver
    /\ fb_program = NoRules
    /\ fb_feedback = <<>>

InitFeedback ==
    /\ fb_pc = "start"
    /\ fb_solver \in Solvers
    /\ fb_program \in FeedbackPrograms
    /\ fb_feedback = <<>>

\* res == unsat
FB_Inconsistent ==
    /\ fb_pc = "start"
    /\ fb_solver.check = "unsat"
    /\ fb_pc' = "done"
    /\ fb_feedback' = <<build_logic_feedback_on(fb_solver, fb_program)>>
    /\ UNCHANGED <<fb_solver, fb_program>>
    /\ FeedbackOnly

\* res is sat or unknown
FB_Consistent ==
    /\ fb_pc = "start"
    /\ fb_solver.check # "unsat"
    /\ fb_pc' = "done"
    /\ fb_feedback' = <<build_logic_feedback_on(fb_solver, fb_program)>>
    /\ UNCHANGED <<fb_solver, fb_program>>
    /\ FeedbackOnly

NextFeedback ==
    \/ FB_Inconsistent
    \/ FB_Consistent

-----------------------------------------------------------------------------
(* LLMClient._record_llm_status and pop_llm_statuses under concurrent       *)
(* requests: src/app/llm_client.py lines 1055-1061. The endpoints of        *)
(* src/app/main.py are plain `def` functions, which the server runs on      *)
(* worker threads, and all of them use the one llm_client of lines 31-46.   *)
(* Neither method takes a lock, so each statement is a step of its own.     *)

\* request threads running at the same time
MaxThreads == 2

Threads == 1..MaxThreads

SharedOperations == {"Structured Extractor", "Refinement LLM"}

\* an empty dict: no operation has a status
EmptyStatuses == [op \in SharedOperations |-> <<>>]

Pairs == Threads \X SharedOperations

\* the recorded pairs a copy of the dict holds
held(statuses) ==
    { <<statuses[op][2], op>> : op \in { o \in SharedOperations :
                                            statuses[o] # <<>> } }

IdleShared ==
    /\ sh_pc = [t \in Threads |-> "idle"]
    /\ sh_llm_status = EmptyStatuses
    /\ sh_statuses = [t \in Threads |-> EmptyStatuses]
    /\ sh_recorded = {}
    /\ sh_returned = [p \in Pairs |-> 0]

\* line 84: self._llm_status = {}
InitShared ==
    /\ sh_pc = [t \in Threads |-> "working"]
    /\ sh_llm_status = EmptyStatuses
    /\ sh_statuses = [t \in Threads |-> EmptyStatuses]
    /\ sh_recorded = {}
    /\ sh_returned = [p \in Pairs |-> 0]

\* line 1056: self._llm_status[operation] = status, by thread t
SH_Record(t) ==
    /\ sh_pc[t] = "working"
    /\ \E op \in SharedOperations, status \in StatusValues :
          /\ <<t, op>> \notin sh_recorded
          /\ sh_llm_status' = [sh_llm_status EXCEPT ![op] = <<status, t>>]
          /\ sh_recorded' = sh_recorded \cup {<<t, op>>}
    /\ UNCHANGED <<sh_pc, sh_statuses, sh_returned>>
    /\ SharedOnly

\* line 1059: statuses = dict(self._llm_status)
SH_PopCopy(t) ==
    /\ sh_pc[t] = "working"
    /\ sh_statuses' = [sh_statuses EXCEPT ![t] = sh_llm_status]
    /\ sh_pc' = [sh_pc EXCEPT ![t] = "copied"]
    /\ UNCHANGED <<sh_llm_status, sh_recorded, sh_returned>>
    /\ SharedOnly

\* lines 1060-1061: self._llm_status.clear(); return statuses
SH_PopClear(t) ==
    /\ sh_pc[t] = "copied"
    /\ sh_llm_status' = EmptyStatuses
    /\ sh_returned' = [p \in Pairs |->
                          IF p \in held(sh_statuses[t])
                          THEN sh_returned[p] + 1 ELSE sh_returned[p]]
    /\ sh_pc' = [sh_pc EXCEPT ![t] = "done"]
    /\ UNCHANGED <<sh_statuses, sh_recorded>>
    /\ SharedOnly

NextShared ==
    \/ \E t \in Threads : SH_Record(t)
    \/ \E t \in Threads : SH_PopCopy(t)
    \/ \E t \in Threads : SH_PopClear(t)

-----------------------------------------------------------------------------
(* CanonicalizerRuntime.run called concurrently on one runtime, all calls   *)
(* with the same question: src/app/canonicalizer_runtime.py lines 51-86,    *)
(* 114-131. The cache is a plain dict and no method takes a lock, so each   *)
(* dict operation is a step of its own.                                     *)

\* calls running at the same time, and the last clock value explored
MaxCallers == 2
MaxClock == 2

Callers == 1..MaxCallers

\* cache_ttl of the shared runtime, in clock ticks
SharedTtl == 1

\* line 123: (time.time() - timestamp) > self.cache_ttl
entry_expired(now, entry) == (now - entry[1]) > SharedTtl

IdleEvict ==
    /\ ev_pc = [c \in Callers |-> "idle"]
    /\ ev_cache = <<>>
    /\ ev_cached = [c \in Callers |-> <<>>]
    /\ ev_output = [c \in Callers |-> <<>>]
    /\ ev_now = 0

\* the runtime holds an entry stored at time 0 by an earlier call, or nothing
InitEvict ==
    /\ ev_pc = [c \in Callers |-> "get"]
    /\ ev_cache \in {<<>>, <<0, "earlier">>}
    /\ ev_cached = [c \in Callers |-> <<>>]
    /\ ev_output = [c \in Callers |-> <<>>]
    /\ ev_now = 0

EV_Tick ==
    /\ ev_now < MaxClock
    /\ ev_now' = ev_now + 1
    /\ UNCHANGED <<ev_pc, ev_cache, ev_cached, ev_output>>
    /\ EvictOnly

\* lines 118-126 up to the del: cached = self._cache.get(key), then the TTL
\* test on the local copy
EV_Get(c) ==
    /\ ev_pc[c] = "get"
    /\ ev_cached' = [ev_cached EXCEPT ![c] = ev_cache]
    /\ IF ev_cache = <<>>
       THEN /\ ev_pc' = [ev_pc EXCEPT ![c] = "backend"]
            /\ UNCHANGED ev_output
       ELSE IF entry_expired(ev_now, ev_cache)
       THEN /\ ev_pc' = [ev_pc EXCEPT ![c] = "delete"]
            /\ UNCHANGED ev_output
       ELSE /\ ev_pc' = [ev_pc EXCEPT ![c] = "done"]
            /\ ev_output' = [ev_output EXCEPT ![c] = <<ev_cache[2]>>]
    /\ UNCHANGED <<ev_cache, ev_now>>
    /\ EvictOnly

\* line 124: del self._cache[key], the key still there (whoever stored it)
EV_Delete(c) ==
    /\ ev_pc[c] = "delete"
    /\ ev_cache # <<>>
    /\ ev_cache' = <<>>
    /\ ev_pc' = [ev_pc EXCEPT ![c] = "backend"]
    /\ UNCHANGED <<ev_cached, ev_output, ev_now>>
    /\ EvictOnly

\* line 124: del self._cache[key] after another call deleted the key:
\* KeyError, which run does not catch
EV_DeleteRaises(c) ==
    /\ ev_pc[c] = "delete"
    /\ ev_cache = <<>>
    /\ ev_pc' = [ev_pc EXCEPT ![c] = "failed"]
    /\ UNCHANGED <<ev_cache, ev_cached, ev_output, ev_now>>
    /\ EvictOnly

\* lines 70-83: the backend answers, or fails and the fallback is built
EV_Backend(c) ==
    /\ ev_pc[c] = "backend"
    /\ \E outcome \in BackendOutcomes :
          ev_output' = [ev_output EXCEPT ![c] = <<outcome>>]
    /\ ev_pc' = [ev_pc EXCEPT ![c] = "store"]
    /\ UNCHANGED <<ev_cache, ev_cached, ev_now>>
    /\ EvictOnly

\* lines 85-86 and 128-131: self._cache[key] = (time.time(), value)
EV_Store(c) ==
    /\ ev_pc[c] = "store"
    /\ ev_cache' = <<ev_now, ev_output[c][1]>>
    /\ ev_pc' = [ev_pc EXCEPT ![c] = "done"]
    /\ UNCHANGED <<ev_cached, ev_output, ev_now>>
    /\ EvictOnly

NextEvict ==
    \/ EV_Tick
    \/ \E c \in Callers : EV_Get(c)
    \/ \E c \in Callers : EV_Delete(c)
    \/ \E c \in Callers : EV_DeleteRaises(c)
    \/ \E c \in Callers : EV_Backend(c)
    \/ \E c \in Callers : EV_Store(c)

-----------------------------------------------------------------------------
(* NSLAPipelineV2._synthesize_missing_facts and _ensure_constant_for_sort:  *)
(* src/app/pipeline_v2.py lines 401-441 and 566-583.                        *)
(* A formula text is a record: predicate, argument names, the separator     *)
(* written between arguments, and whether blanks surround the text. A       *)
(* constant name is <<base, suffix>>, the text f"{base}_{suffix}".          *)

\* synthesis rounds explored on one program
MaxSynthRounds == 2

Formula(pred, args, sep, padded) ==
    [pred |-> pred, args |-> args, sep |-> sep, padded |-> padded]

\* str.strip() of a formula text
stripped(formula) == [formula EXCEPT !.padded = FALSE]

\* ontology_utils.resolve_predicate_alias: a synonym of the registry maps to
\* its predicate, any other name to itself
resolve_predicate_alias(name) ==
    IF name = "contratto valido" THEN "Contratto" ELSE name

\* ontology_utils.resolve_sort_alias: the lower-cased name is looked up
resolve_sort_alias(name) ==
    IF name = "debitore" THEN "Debitore" ELSE name

\* str.lower() of a canonical sort name
sort_base(sort) ==
    CASE sort = "Debitore"  -> "debitore"
      [] sort = "Contratto" -> "contratto"
      [] OTHER              -> sort

constant_names(constants) == { constants[i].name : i \in 1..Len(constants) }

\* a suffix search that takes the first candidate whatever the dict holds
fresh_suffix_unchecked(names, base, suffix) == suffix

\* lines 577-581: the first suffix whose candidate is not a constant yet
RECURSIVE fresh_suffix(_, _, _)
fresh_suffix(names, base, suffix) ==
    IF <<base, suffix>> \in names
    THEN fresh_suffix(names, base, suffix + 1)
    ELSE suffix

\* lines 566-583: the constants afterwards and the name returned; position
\* counts from 0
_ensure_constant_for_sort(constants, sort_name, position) ==
    LET target_sort == resolve_sort_alias(sort_name)
        same_sort == { i \in 1..Len(constants) :
                          constants[i].sort = target_sort }
    IN  IF same_sort # {}
        THEN [constants |-> constants,
              name |-> constants[CHOOSE i \in same_sort :
                                    \A j \in same_sort : i <= j].name]
        ELSE LET candidate ==
                    <<sort_base(target_sort),
                      fresh_suffix(constant_names(constants),
                                   sort_base(target_sort), position + 1)>>
             IN  [constants |-> Append(constants,
                        [name |-> candidate, sort |-> target_sort]),
                  name |-> candidate]

\* lines 425-430: one constant per argument position
RECURSIVE build_args(_, _, _, _)
build_args(constants, sorts, idx, args) ==
    IF idx > Len(sorts) THEN [constants |-> constants, args |-> args]
    ELSE LET ensured == _ensure_constant_for_sort(constants, sorts[idx],
                                                  idx - 1)
         IN  build_args(ensured.constants, sorts, idx + 1,
                        Append(args, ensured.name))

\* lines 419-440: the loop over missing_links
RECURSIVE synthesize_from(_, _, _, _)
synthesize_from(program, existing_formulas, missing_links, added) ==
    IF missing_links = <<>> THEN [program |-> program, added |-> added]
    ELSE LET canonical == resolve_predicate_alias(Head(missing_links))
             rest == Tail(missing_links)
         IN  IF canonical \notin DOMAIN program.predicates
             THEN synthesize_from(program, existing_formulas, rest, added)
             ELSE LET built == build_args(program.constants,
                                   program.predicates[canonical], 1, <<>>)
                      formula == Formula(canonical, built.args, ", ", FALSE)
                      with_constants ==
                          [program EXCEPT !.constants = built.constants]
                  IN  IF formula \in existing_formulas
                      THEN synthesize_from(with_constants, existing_formulas,
                                           rest, added)
                      ELSE synthesize_from(
                              [with_constants EXCEPT
                                  !.axioms = Append(@, formula)],
                              existing_formulas \cup {formula}, rest, TRUE)

\* lines 401-441
_synthesize_missing_facts_of(program, missing_links) ==
    IF missing_links = <<>> THEN [program |-> program, added |-> FALSE]
    ELSE synthesize_from(program,
            { stripped(program.axioms[i]) : i \in 1..Len(program.axioms) },
            missing_links, FALSE)

\* ---- the programs and missing links explored --------------------------------

Mario == <<"mario", 0>>

FactDeclarations ==
    { [name \in {"ContrattoValido", "Contratto", "Fatto"} |->
          CASE name = "ContrattoValido" -> <<"Debitore", "Contratto">>
            [] name = "Contratto"       -> <<"Contratto">>
            [] OTHER                    -> <<>>],
      [name \in {"ContrattoValido"} |-> <<"debitore", "Contratto">>],
      [name \in {"Contratto"} |-> <<"Contratto">>] }

FactConstants ==
    { <<>>,
      << [name |-> Mario, sort |-> "Debitore"] >>,
      << [name |-> <<"debitore", 1>>, sort |-> "Contratto"] >>,
      << [name |-> <<"contratto", 2>>, sort |-> "Soggetto"],
         [name |-> <<"contratto", 3>>, sort |-> "debitore"] >> }

FactAxioms ==
    { <<>>,
      << Formula("Contratto", << <<"contratto", 1>> >>, ", ", TRUE) >>,
      << Formula("ContrattoValido", <<Mario, <<"contratto", 2>> >>, ",",
                 FALSE) >>,
      << Formula("Fatto", <<>>, ", ", FALSE),
         Formula("ContrattoValido", <<Mario, <<"contratto", 2>> >>, ", ",
                 FALSE) >> }

FactRules == { <<>>, << "ContrattoValido(d, c) -> Responsabile(d)" >> }

FactQueries == { "", "Responsabile(mario)" }

FactPrograms ==
    [predicates : FactDeclarations, constants : FactConstants,
     axioms : FactAxioms, rules : FactRules, query : FactQueries]

FactMissingLinks ==
    { <<>>, <<"ContrattoValido">>, <<"contratto valido">>, <<"Altro">>,
      <<"Fatto", "Fatto">>, <<"ContrattoValido", "Contratto">>,
      <<"Contratto", "ContrattoValido">> }

NoProgram ==
    [predicates |-> [name \in {} |-> <<>>], constants |-> <<>>,
     axioms |-> <<>>, rules |-> <<>>, query |-> ""]

IdleFacts ==
    /\ fs_pc = "idle"
    /\ fs_program = NoProgram
    /\ fs_before = NoProgram
    /\ fs_missing = <<>>
    /\ fs_added = FALSE
    /\ fs_rounds = 0

InitFacts ==
    /\ fs_pc = "start"
    /\ fs_program \in FactPrograms
    /\ fs_before = fs_program
    /\ fs_missing = <<>>
    /\ fs_added = FALSE
    /\ fs_rounds = 0

\* a round that appended at least one axiom
FS_Adds ==
    /\ fs_rounds < MaxSynthRounds
    /\ \E missing_links \in FactMissingLinks :
          LET round == _synthesize_missing_facts_of(fs_program, missing_links)
          IN  /\ round.added
              /\ fs_program' = round.program
              /\ fs_missing' = missing_links
              /\ fs_added' = TRUE
    /\ fs_before' = fs_program
    /\ fs_rounds' = fs_rounds + 1
    /\ fs_pc' = "done"
    /\ FactsOnly

\* a round that appended nothing
FS_AddsNothing ==
    /\ fs_rounds < MaxSynthRounds
    /\ \E missing_links \in FactMissingLinks :
          LET round == _synthesize_missing_facts_of(fs_program, missing_links)
          IN  /\ ~ round.added
              /\ fs_program' = round.program
              /\ fs_missing' = missing_links
              /\ fs_added' = FALSE
    /\ fs_before' = fs_program
    /\ fs_rounds' = fs_rounds + 1
    /\ fs_pc' = "done"
    /\ FactsOnly

NextFacts ==
    \/ FS_Adds
    \/ FS_AddsNothing

-----------------------------------------------------------------------------
(* Specifications *)

StartIter   == InitIter /\ IdleRefine /\ IdleOnce /\ IdleCanon /\ IdleRetry /\ IdleStatus /\ IdleSynth /\ IdleNormalize /\ IdleDeclare /\ IdleFeedback /\ IdleShared /\ IdleEvict /\ IdleFacts
StartRefine == InitRefine /\ IdleIter /\ IdleOnce /\ IdleCanon /\ IdleRetry /\ IdleStatus /\ IdleSynth /\ IdleNormalize /\ IdleDeclare /\ IdleFeedback /\ IdleShared /\ IdleEvict /\ IdleFacts
StartOnce   == InitOnce /\ IdleIter /\ IdleRefine /\ IdleCanon /\ IdleRetry /\ IdleStatus /\ IdleSynth /\ IdleNormalize /\ IdleDeclare /\ IdleFeedback /\ IdleShared /\ IdleEvict /\ IdleFacts
StartCanon  == InitCanon /\ IdleIter /\ IdleRefine /\ IdleOnce /\ IdleRetry /\ IdleStatus /\ IdleSynth /\ IdleNormalize /\ IdleDeclare /\ IdleFeedback /\ IdleShared /\ IdleEvict /\ IdleFacts
StartRetry  == InitRetry /\ IdleIter /\ IdleRefine /\ IdleOnce /\ IdleCanon /\ IdleStatus /\ IdleSynth /\ IdleNormalize /\ IdleDeclare /\ IdleFeedback /\ IdleShared /\ IdleEvict /\ IdleFacts
StartStatus == InitStatus /\ IdleIter /\ IdleRefine /\ IdleOnce /\ IdleCanon /\ IdleRetry /\ IdleSynth /\ IdleNormalize /\ IdleDeclare /\ IdleFeedback /\ IdleShared /\ IdleEvict /\ IdleFacts
StartSynth == InitSynth /\ IdleIter /\ IdleRefine /\ IdleOnce /\ IdleCanon /\ IdleRetry /\ IdleStatus /\ IdleNormalize /\ IdleDeclare /\ IdleFeedback /\ IdleShared /\ IdleEvict /\ IdleFacts
StartNormalize == InitNormalize /\ IdleIter /\ IdleRefine /\ IdleOnce /\ IdleCanon /\ IdleRetry /\ IdleStatus /\ IdleSynth /\ IdleDeclare /\ IdleFeedback /\ IdleShared /\ IdleEvict /\ IdleFacts
StartDeclare == InitDeclare /\ IdleIter /\ IdleRefine /\ IdleOnce /\ IdleCanon /\ IdleRetry /\ IdleStatus /\ IdleSynth /\ IdleNormalize /\ IdleFeedback /\ IdleShared /\ IdleEvict /\ IdleFacts
StartFeedback == InitFeedback /\ IdleIter /\ IdleRefine /\ IdleOnce /\ IdleCanon /\ IdleRetry /\ IdleStatus /\ IdleSynth /\ IdleNormalize /\ IdleDeclare /\ IdleShared /\ IdleEvict /\ IdleFacts
StartShared == InitShared /\ IdleIter /\ IdleRefine /\ IdleOnce /\ IdleCanon /\ IdleRetry /\ IdleStatus /\ IdleSynth /\ IdleNormalize /\ IdleDeclare /\ IdleFeedback /\ IdleEvict /\ IdleFacts
StartEvict == InitEvict /\ IdleIter /\ IdleRefine /\ IdleOnce /\ IdleCanon /\ IdleRetry /\ IdleStatus /\ IdleSynth /\ IdleNormalize /\ IdleDeclare /\ IdleFeedback /\ IdleShared /\ IdleFacts
StartFacts == InitFacts /\ IdleIter /\ IdleRefine /\ IdleOnce /\ IdleCanon /\ IdleRetry /\ IdleStatus /\ IdleSynth /\ IdleNormalize /\ IdleDeclare /\ IdleFeedback /\ IdleShared /\ IdleEvict

SpecIter   == StartIter /\ [][NextIter]_vars
SpecRefine == StartRefine /\ [][NextRefine]_vars
SpecOnce   == StartOnce /\ [][NextOnce]_vars
SpecCanon  == StartCanon /\ [][NextCanon]_vars
SpecRetry  == StartRetry /\ [][NextRetry]_vars
SpecStatus == StartStatus /\ [][NextStatus]_vars
SpecNormalize == StartNormalize /\ [][NextNormalize]_vars
SpecDeclare == StartDeclare /\ [][NextDeclare]_vars
SpecFeedback == StartFeedback /\ [][NextFeedback]_vars
SpecShared == StartShared /\ [][NextShared]_vars
SpecEvict == StartEvict /\ [][NextEvict]_vars
SpecFacts == StartFacts /\ [][NextFacts]_vars
\* the loop is sequential code: a step that can be taken is taken
SpecSynth == StartSynth /\ [][NextSynth]_vars /\ WF_vars(NextSynth)

-----------------------------------------------------------------------------
(* Properties of run_iterative / IterationManager.run (SpecIter) *)

IterEnded == it_pc \in {"done", "raised"}

LastState == history[Len(history)]

\* C1: with max_iters >= 1 the loop of IterationManager.run terminates: it
\* never holds more than max_iters iteration states, never makes more than
\* max_iters refinement calls, and until it has ended a next step exists.
C1_BoundedIterations ==
    max_iters >= 1 =>
        /\ Len(history) <= max_iters
        /\ refine_calls <= max_iters
        /\ (~IterEnded => ENABLED NextIter)

\* a run that used its max_iters >= 2 iterations and stopped for that reason
C1_Witness ==
    /\ it_pc = "done"
    /\ max_iters >= 2
    /\ Len(history) = max_iters
    /\ refine_calls = max_iters
    /\ LastState.status \notin stop_on_status

\* C2: no iteration follows one whose feedback status is in stop_on_status:
\* only the last state of the history may have a stop-set status.
C2_StopStatusOnlyLast ==
    \A i \in 1..(Len(history) - 1) : history[i].status \notin stop_on_status

\* a run ended early, after two or more iterations, by a stop-set status
C2_Witness ==
    /\ it_pc = "done"
    /\ Len(history) >= 2
    /\ Len(history) < max_iters
    /\ LastState.status \in stop_on_status

Count(s, x) == Cardinality({ i \in 1..Len(s) : s[i] = x })

SameItems(s, t) ==
    \A x \in { s[i] : i \in 1..Len(s) } \cup { t[i] : i \in 1..Len(t) } :
        Count(s, x) = Count(t, x)

\* same status, same missing_links and same conflicting_axioms up to order
SameFeedback(a, b) ==
    /\ a.status = b.status
    /\ SameItems(a.missing_links, b.missing_links)
    /\ SameItems(a.conflicting_axioms, b.conflicting_axioms)

\* C3: two consecutive iterations with the same status, the same sorted
\* missing_links and the same sorted conflicting_axioms end the loop: such a
\* pair is only ever the last two states of the history.
C3_FixpointOnlyLast ==
    \A i \in 1..(Len(history) - 2) :
        ~SameFeedback(history[i], history[i + 1])

\* a run ended by the fixpoint rule alone, on lists that differ in order
C3_Witness ==
    /\ it_pc = "done"
    /\ Len(history) >= 2
    /\ Len(history) < max_iters
    /\ LastState.status \notin stop_on_status
    /\ SameFeedback(history[Len(history) - 1], LastState)
    /\ history[Len(history) - 1].missing_links # LastState.missing_links

Least(S) == CHOOSE m \in S : \A n \in S : m <= n

\* C4: the best state returned is the first state marked is_best if there is
\* one, otherwise the first consistent_entails state, otherwise the last one.
C4_BestStatePriority ==
    it_pc = "done" =>
        LET flagged   == { i \in 1..Len(history) : history[i].is_best }
            entailing == { i \in 1..Len(history) : history[i].status = CE }
        IN  best_state = IF flagged # {} THEN Least(flagged)
                         ELSE IF entailing # {} THEN Least(entailing)
                         ELSE Len(history)

\* a run whose best state is the first of two states marked is_best
C4_Witness ==
    /\ it_pc = "done"
    /\ best_state >= 1
    /\ history[best_state].is_best
    /\ \E j \in (best_state + 1)..Len(history) : history[j].is_best

\* C5: a refined program that cannot be parsed into a solver does not abort
\* the iterative run: its iteration is recorded with status
\* invalid_logic_program.
C5_ParseFailureIsRecorded ==
    unparsable_at # -1 =>
        /\ it_pc # "raised"
        /\ Len(history) > unparsable_at
        /\ history[unparsable_at + 1].status = ILP

\* C8: when the v1 solver build raises a parser error, run_iterative makes no
\* refinement call and returns exactly one state: iteration 0, status
\* invalid_logic_program, final answer the v1 baseline answer.
C8_V1ParserErrorShortCircuits ==
    v1_error # "none" =>
        /\ refine_calls = 0
        /\ it_pc \in {"short_circuit", "done"}
        /\ it_pc = "done" =>
              /\ Len(history) = 1
              /\ best_state = 1
              /\ history[1].iteration = 0
              /\ history[1].status = ILP
              /\ history[1].final_answer = answer_v1

\* a returned run whose v1 program raised a parser error
C8_Witness ==
    /\ it_pc = "done"
    /\ v1_error \in ParserErrors
    /\ Len(history) = 1

-----------------------------------------------------------------------------
(* Properties of RefinementRuntime.run (SpecRefine) *)

\* the program's text lacks "<name>(" for some non-blank missing link
OmitsMissingLink(logic_program, missing_links) ==
    \E i \in 1..Len(missing_links) :
        LET name == lower(strip(missing_links[i])) IN
        /\ name # <<>>
        /\ ~Contains(lower(join_lines(corpus_of(logic_program))),
                     name \o <<"(">>)

BothAttemptsOmit ==
    /\ rr_pc = "done"
    /\ Len(llm_calls) = 2
    /\ \A k \in 1..2 :
          /\ llm_calls[k].outcome = "returned"
          /\ OmitsMissingLink(llm_calls[k].logic_program, rr_missing_links)

\* C10 as stated: when both attempts omit listed predicates, run returns the
\* unchanged current program together with the previous answer.
C10_ExhaustedFallsBack ==
    BothAttemptsOmit =>
        rr_result = <<fallback_output(rr_previous_answer, CurrentProgram)>>

\* C10 amended: when both attempts omit listed predicates, run returns the
\* output of the second attempt, its program and its answer, as it is.
C10_ExhaustedReturnsLastResult ==
    BothAttemptsOmit =>
        rr_result = << [final_answer  |-> "llm answer",
                        logic_program |-> llm_calls[2].logic_program] >>

\* a run that used both attempts and returned
C10_Witness ==
    /\ BothAttemptsOmit
    /\ Len(rr_result) = 1
    /\ attempts = MAX_REFINEMENT_ATTEMPTS

\* some attempt of the run ended in an exception
SomeAttemptRaised ==
    \E k \in 1..Len(llm_calls) : llm_calls[k].outcome # "returned"

\* C11: if the refinement LLM call or the validation of its output raises on
\* any attempt, run still returns, and what it returns is the current program
\* with the previous answer, or with the fixed generic text when there is no
\* previous answer.
C11_RaiseGivesFallback ==
    SomeAttemptRaised =>
        /\ rr_pc = "done"
        /\ Len(rr_result) = 1
        /\ rr_result[1].logic_program = CurrentProgram
        /\ rr_result[1].final_answer =
              IF rr_previous_answer = NoText
              THEN "Risposta generica (fallback) in attesa di un refinement valido."
              ELSE rr_previous_answer

\* a run whose second attempt raised, after a first one that returned
C11_Witness ==
    /\ rr_pc = "done"
    /\ Len(llm_calls) = 2
    /\ llm_calls[1].outcome = "returned"
    /\ llm_calls[2].outcome = "validation_raised"
    /\ rr_previous_answer # NoText

\* C12: run hands the caller's previous_answer and history_summary to the
\* refinement LLM unchanged: the last call the LLM client received carries
\* exactly the caller-supplied history_summary, whatever the feedback.
C12_HistoryPassedUnchanged ==
    (rr_pc = "done" /\ Len(llm_calls) >= 1) =>
        /\ llm_calls[Len(llm_calls)].answer_v1 = rr_previous_answer
        /\ llm_calls[Len(llm_calls)].history_summary = <<rr_history_summary>>

-----------------------------------------------------------------------------
(* Properties of NSLAPipelineV2.run_once (SpecOnce) *)

\* C6: in every result of run_once, fallback_used is true exactly when the
\* guardrail carried by the result is not ok; such a result carries the v1
\* program's feedback as feedback_v2 and an explanation of status
\* guardrail_failed.
C6_FallbackIffGuardrailFailed ==
    ro_pc = "done" =>
        LET result == ro_result[1] IN
        /\ result.fallback_used <=> ~result.guardrail_ok
        /\ result.fallback_used =>
              /\ result.feedback_v2 = result.feedback_v1
              /\ result.feedback_v2 = ro_context[1].feedback_v1
              /\ result.explanation_status = "guardrail_failed"

\* a fallback result for a v1 program that went through fact synthesis
C6_Witness ==
    /\ ro_pc = "done"
    /\ ro_result[1].fallback_used
    /\ ~ro_result[1].guardrail_ok
    /\ ro_context[1].logic_program_v1 = "synthesized"
    /\ ro_result[1].feedback_v2.status = CE

\* C7: run_once never raises to its caller, whatever the question and the
\* LLM, parser and solver outcomes.
C7_RunOnceNeverRaises == ro_pc # "raised"

-----------------------------------------------------------------------------
(* Properties of CanonicalizerRuntime (SpecCanon) *)

\* positions of the earlier run calls that invoked the backend for the
\* question of call j
EarlierBackendCalls(j) ==
    { i \in 1..(j - 1) : /\ cn_log[i].outcome = "backend"
                         /\ cn_log[i].key = cn_log[j].key }

Latest(S) == CHOOSE m \in S : \A n \in S : n <= m

\* C13: with caching enabled and a TTL set, a run call whose question equals
\* an earlier one after stripping, made no later than TTL after the output
\* was stored, returns that stored output without invoking the backend; a
\* call made later than that invokes the backend again.
C13_CacheHitWithinTtl ==
    (cn_enable_cache /\ cn_cache_ttl # <<>>) =>
        \A j \in 1..Len(cn_log) :
            (cn_log[j].outcome # "ValueError" /\ EarlierBackendCalls(j) # {}) =>
                LET stored == cn_log[Latest(EarlierBackendCalls(j))] IN
                IF cn_log[j].time - stored.time <= cn_cache_ttl[1]
                THEN /\ cn_log[j].outcome = "cached"
                     /\ cn_log[j].output = stored.output
                ELSE cn_log[j].outcome = "backend"

\* a hit on a differently written question exactly at the TTL, followed by a
\* backend call for the same question after the TTL
C13_Witness ==
    /\ cn_enable_cache
    /\ cn_cache_ttl = <<2>>
    /\ Len(cn_log) = 3
    /\ cn_log[1].outcome = "backend"
    /\ cn_log[2].outcome = "cached"
    /\ cn_log[2].question # cn_log[1].question
    /\ cn_log[2].key = cn_log[1].key
    /\ cn_log[2].time - cn_log[1].time = 2
    /\ cn_log[3].outcome = "backend"
    /\ cn_log[3].key = cn_log[1].key

-----------------------------------------------------------------------------
(* Properties of LLMClient._call_llm_with_retry (SpecRetry) *)

BackendInvocations ==
    Cardinality({ i \in 1..Len(lr_outcomes) : lr_outcomes[i].invoked })

\* C14: with max_retries = N >= 1 the backend is invoked at most N times, a
\* successful response ends the call at once (it is the last attempt made
\* and the call returns it), and LLMCallError is raised only after N failed
\* attempts in a row.
C14_BoundedRetries ==
    lr_max_retries >= 1 =>
        /\ BackendInvocations <= lr_max_retries
        /\ Len(lr_outcomes) <= lr_max_retries
        /\ \A i \in 1..Len(lr_outcomes) :
              lr_outcomes[i].result = "ok" =>
                  /\ i = Len(lr_outcomes)
                  /\ lr_pc = "returned"
                  /\ lr_result = "response"
        /\ lr_pc = "returned" =>
              lr_outcomes[Len(lr_outcomes)].result = "ok"
        /\ lr_pc = "raised" =>
              /\ lr_result = "LLMCallError"
              /\ Len(lr_outcomes) = lr_max_retries
              /\ \A i \in 1..Len(lr_outcomes) : lr_outcomes[i].result # "ok"

\* a call that succeeded on its third and last attempt
C14_Witness ==
    /\ lr_pc = "returned"
    /\ lr_max_retries = 3
    /\ Len(lr_outcomes) = 3
    /\ Len(lr_sleeps) = 2

-----------------------------------------------------------------------------
(* Properties of the status map over run_once requests (SpecStatus) *)

\* C15: every status recorded while serving a request (the judge call's
\* included) is in the llm_status of that request's result, and between
\* requests the client's map holds nothing that a later request would pop
\* into its own llm_status.
C15_StatusesSurfaceInOwnRequest ==
    /\ \A k \in 1..Len(ls_responses) :
          \A op \in Operations :
             ls_served[k][op] # Unset => ls_responses[k][op] = ls_served[k][op]
    /\ ls_pc = "start" => _llm_status = NoStatuses

\* the leak seen from the later request: its llm_status holds a status for
\* an operation that recorded none while it was served
C15_LaterRequestShowsStaleStatus ==
    \E k \in 1..Len(ls_responses) :
       \E op \in Operations :
          ls_responses[k][op] # Unset /\ ls_served[k][op] = Unset

-----------------------------------------------------------------------------
(* Properties of _evaluate_with_fact_synthesis (SpecSynth) *)

SynthRounds == Cardinality({ i \in 1..Len(sy_log) : sy_log[i].added })

\* every evaluation but the last was followed by a round that added an axiom,
\* which takes a consistent_no_entailment feedback with missing links
EarlierEvaluationsHadToGoOn ==
    \A i \in 1..Len(sy_log) :
       (i < Len(sy_log) \/ sy_pc = "loop") =>
          /\ sy_log[i].status = CNE
          /\ sy_log[i].missing_links # {}
          /\ sy_log[i].added

C16_Bounded ==
    /\ SynthRounds <= FACT_SYNTHESIS_MAX_ROUNDS
    /\ Len(sy_log) <= FACT_SYNTHESIS_MAX_ROUNDS + 1
    /\ sy_attempts = SynthRounds
    /\ EarlierEvaluationsHadToGoOn

\* C16: _evaluate_with_fact_synthesis terminates after at most
\* FACT_SYNTHESIS_MAX_ROUNDS = 3 synthesis rounds and at most 4 solver
\* evaluations, and no further evaluation follows a feedback whose status is
\* not consistent_no_entailment, whose missing_links is empty, or whose round
\* added no axiom.
C16_TerminatesWithinMaxRounds ==
    /\ []C16_Bounded
    /\ <>(sy_pc \in {"done", "raised"})

\* three rounds were run and the fourth evaluation, still lacking a link that
\* could be synthesized, was returned because the rounds were used up
C16_Witness ==
    /\ sy_pc = "done"
    /\ Len(sy_log) = 4
    /\ SynthRounds = 3
    /\ sy_feedback[1].status = CNE
    /\ new_facts(sy_predicates, sy_axioms, sy_feedback[1].missing_links) # {}

-----------------------------------------------------------------------------
(* Properties of the normalization of logic programs (SpecNormalize) *)

\* the rules of the program that carry the canonical condition for its query
CanonicalRulesForQuery(program) ==
    LET atom == _extract_query_atom(program.query)
    IN  IF atom = NoAtom \/ Len(atom[1].args) # 2 THEN {}
        ELSE { i \in 1..Len(program.rules) :
                 program.rules[i].condition
                    = contratto_valido_condition(atom[1].args) }

\* C17: normalizing (sanitize, hydrate, ensure_canonical_query_rule) an
\* already normalized program leaves the program equal, and the canonical
\* rule for the query is in the program at most once.
C17_NormalizationIdempotent ==
    nm_passes >= 2 =>
        /\ nm_program = nm_previous
        /\ Cardinality(CanonicalRulesForQuery(nm_program)) <= 1

\* C18: after sanitize, hydrate and canonical-rule injection every predicate
\* applied in the axioms, the rules (an injected canonical rule included) or
\* the query of the program is declared in its predicates.
C18_ReferencedPredicatesDeclared ==
    nm_passes >= 1 =>
        _collect_predicate_candidates(nm_program)
            \subseteq DOMAIN nm_program.predicates

C20_DeclaredArity3IsRejected ==
    ( /\ nm_kind = "refined"
      /\ nm_pc = "checked"
      /\ "ContrattoValido" \in DOMAIN nm_input.predicates
      /\ nm_input.predicates["ContrattoValido"] = 3 )
    => /\ "PREDICATE_ARITY_MISMATCH" \in nm_guardrail[1]
       /\ nm_fallback_used

-----------------------------------------------------------------------------
(* C21: run_guardrail and declarations that differ from the registry        *)

DeclaredRegistryNames == DOMAIN gd_predicates \cap DOMAIN PREDICATES

DiffersInArity(name) ==
    /\ gd_predicates[name].arity # <<>>
    /\ gd_predicates[name].arity[1] # Len(PREDICATES[name])

DiffersInSorts(name) ==
    /\ gd_predicates[name].sorts # <<>>
    /\ gd_predicates[name].sorts # PREDICATES[name]

-----------------------------------------------------------------------------
(* C22: the shape of every feedback of build_logic_feedback                 *)

\* C22: every feedback produced by build_logic_feedback satisfies: status
\* consistent_entails implies missing_links and conflicting_axioms are both
\* empty, and status inconsistent implies conflicting_axioms is non-empty.
C22_FeedbackShape ==
    fb_pc = "done" =>
        /\ fb_feedback[1].status = CE =>
              /\ fb_feedback[1].missing_links = <<>>
              /\ fb_feedback[1].conflicting_axioms = <<>>
        /\ fb_feedback[1].status = INC =>
              fb_feedback[1].conflicting_axioms # <<>>

\* an inconsistent feedback was built from a solver without assertions and a
\* program without rules
C22_Witness ==
    /\ fb_pc = "done"
    /\ fb_feedback[1].status = INC
    /\ fb_solver.assertions \in {<<>>, <<0>>}
    /\ fb_program.rules = <<>>
    /\ fb_feedback[1].conflicting_axioms = <<"conflict_0">>

\* an entailing feedback was built
C22_WitnessEntails ==
    /\ fb_pc = "done"
    /\ fb_feedback[1].status = CE
    /\ fb_solver.check = "unknown"

-----------------------------------------------------------------------------
(* C23: where iteration 0 of the iterative history comes from               *)

-----------------------------------------------------------------------------
(* C24: recording and popping statuses on a shared LLMClient                *)

AllPopped == \A t \in Threads : sh_pc[t] = "done"

\* C24 as stated: with concurrent requests sharing one LLMClient, recording a
\* status and popping the status map exclude each other: no status written by
\* _record_llm_status is lost between the copy and the clear inside
\* pop_llm_statuses, and every recorded status is returned by exactly one pop.
C24_EveryStatusReturnedOnce ==
    AllPopped => \A p \in sh_recorded : sh_returned[p] = 1

\* the exclusion itself: no thread records while another thread stands
\* between the copy and the clear of pop_llm_statuses
C24_RecordExcludesPop ==
    [][ \A t \in Threads :
            (sh_pc[t] = "copied" /\ sh_pc'[t] = "copied")
                => sh_llm_status' = sh_llm_status ]_vars

\* a status recorded between another thread's copy and clear was returned by
\* no pop
C24_LostStatus ==
    /\ AllPopped
    /\ \E p \in sh_recorded : sh_returned[p] = 0
    /\ sh_statuses[1] = EmptyStatuses
    /\ sh_statuses[2] = EmptyStatuses

-----------------------------------------------------------------------------
(* C25: concurrent CanonicalizerRuntime.run calls on one runtime            *)

\* C25 as stated: concurrent CanonicalizerRuntime.run calls on one shared
\* runtime are safe: insertion and eviction of cache entries exclude each
\* other, so when two calls find the same expired entry neither call fails
\* and the cache ends with one valid entry for that key.
C25_ConcurrentRunsSafe ==
    /\ \A c \in Callers : ev_pc[c] # "failed"
    /\ (\A c \in Callers : ev_pc[c] = "done") /\ (\E c \in Callers :
            ev_cached[c] # <<>> /\ ev_output[c] # <<ev_cached[c][2]>>)
          => ev_cache # <<>>

\* two calls found the same expired entry and the second del raised
C25_SecondDeleteRaised ==
    /\ ev_pc[2] = "failed"
    /\ ev_cached[1] = <<0, "earlier">>
    /\ ev_cached[2] = <<0, "earlier">>
    /\ ev_pc[1] \in {"backend", "store", "done"}

-----------------------------------------------------------------------------
(* C26, C27: what IterationManager.run returns                              *)

\* C26: with the default stop set (consistent_entails, inconsistent), the
\* best state returned by IterationManager.run is always the last state of
\* the returned history.
C26_BestIsLastWithDefaultStops ==
    (it_pc = "done" /\ v1_solver_ready /\ stop_on_status = {CE, INC})
        => best_state = Len(history)

\* a run with the default stop set returned a history of several states and
\* its last, entailing state as the best one
C26_Witness ==
    /\ it_pc = "done"
    /\ v1_solver_ready
    /\ stop_on_status = {CE, INC}
    /\ Len(history) >= 2
    /\ history[Len(history)].status = CE
    /\ best_state = Len(history)

-----------------------------------------------------------------------------
(* C28: how _call_llm_with_retry ends                                       *)

\* C28: _call_llm_with_retry ends in exactly one of two ways for every value
\* of max_retries, zero and negative values included: it returns the response
\* string of a successful backend attempt, or it raises LLMCallError after
\* recording the failure reason for the operation.
C28_ReturnsResponseOrRaises ==
    lr_pc \in {"returned", "raised"} =>
        \/ /\ lr_pc = "returned"
           /\ lr_result = "response"
           /\ lr_outcomes # <<>>
           /\ lr_outcomes[Len(lr_outcomes)].result = "ok"
        \/ /\ lr_pc = "raised"
           /\ lr_result = "LLMCallError"
           /\ lr_status # <<>>
           /\ lr_status[1] # "ok"

\* a call with a negative max_retries returned None without any attempt
C28_ReturnedNone ==
    /\ lr_pc = "returned"
    /\ lr_max_retries < 0
    /\ lr_result = "None"
    /\ lr_outcomes = <<>>
    /\ lr_status = <<>>

-----------------------------------------------------------------------------
(* C29: the canonicalizer's fallback output in the cache (SpecCanon)        *)

\* C29: when the canonicalizer backend fails, the deterministic fallback
\* output is stored in the cache like a normal result, so later
\* CanonicalizerRuntime.run calls with the same question within the TTL
\* return that fallback without invoking the backend again.
C29_FallbackIsCached ==
    cn_enable_cache =>
        \A j \in 1..Len(cn_log) :
            (cn_log[j].outcome # "ValueError" /\ EarlierBackendCalls(j) # {}) =>
                LET stored == cn_log[Latest(EarlierBackendCalls(j))] IN
                ( /\ stored.output[1].variant = "fallback"
                  /\ \/ cn_cache_ttl = <<>>
                     \/ cn_log[j].time - stored.time <= cn_cache_ttl[1] )
                    => /\ cn_log[j].outcome = "cached"
                       /\ cn_log[j].output = stored.output

\* the backend failed once and a later call within the TTL got the fallback
\* from the cache
C29_Witness ==
    /\ cn_enable_cache
    /\ cn_cache_ttl = <<2>>
    /\ Len(cn_log) = 2
    /\ cn_log[1].outcome = "backend"
    /\ cn_log[1].output[1].variant = "fallback"
    /\ cn_log[2].outcome = "cached"
    /\ cn_log[2].output = cn_log[1].output
    /\ cn_log[2].time > cn_log[1].time

-----------------------------------------------------------------------------
(* C30: what a round of fact synthesis leaves alone (SpecFacts)             *)

NewAxiomPositions == (Len(fs_before.axioms) + 1)..Len(fs_program.axioms)

NewConstantPositions ==
    (Len(fs_before.constants) + 1)..Len(fs_program.constants)

\* C30: fact synthesis only adds: a round of _synthesize_missing_facts appends
\* new axioms and fresh constants but never changes or removes an existing
\* axiom, rule, predicate declaration or the query, and never appends a
\* formula that is already among the axioms.
C30_SynthesisOnlyAdds ==
    fs_pc = "done" =>
        /\ Len(fs_program.axioms) >= Len(fs_before.axioms)
        /\ SubSeq(fs_program.axioms, 1, Len(fs_before.axioms))
              = fs_before.axioms
        /\ Len(fs_program.constants) >= Len(fs_before.constants)
        /\ SubSeq(fs_program.constants, 1, Len(fs_before.constants))
              = fs_before.constants
        /\ fs_program.rules = fs_before.rules
        /\ fs_program.predicates = fs_before.predicates
        /\ fs_program.query = fs_before.query
        /\ \A i \in NewAxiomPositions :
              \A j \in 1..(i - 1) :
                  stripped(fs_program.axioms[j]) # fs_program.axioms[i]
        /\ \A i \in NewConstantPositions :
              \A j \in 1..(i - 1) :
                  fs_program.constants[j].name # fs_program.constants[i].name
        /\ fs_added = (NewAxiomPositions # {})

\* a round appended one axiom and one constant to a program that had both,
\* and skipped a missing link whose formula was already an axiom
C30_Witness ==
    /\ fs_pc = "done"
    /\ fs_before.axioms # <<>>
    /\ fs_before.constants # <<>>
    /\ fs_before.rules # <<>>
    /\ Len(fs_program.axioms) = Len(fs_before.axioms) + 1
    /\ Len(fs_program.constants) > Len(fs_before.constants)
    /\ Len(fs_missing) = 2
    /\ \E i \in 1..Len(fs_before.axioms) :
          /\ fs_before.axioms[i].padded
          /\ fs_before.axioms[i].pred
                \in { resolve_predicate_alias(fs_missing[k]) : k \in 1..2 }

=============================================================================
